---- MODULE Spec2Model ----
(***************************************************************************)
(* Cab navigation: the comparison/booking orchestrator                     *)
(* (src/orchestrator.py), the provider agents (src/agents/base_agent.py)   *)
(* and the CLI request that runs a comparison under a deadline             *)
(* (src/main.py).                                                          *)
(*                                                                         *)
(* A Python dict is a sequence of [key, val] entries in insertion order.   *)
(* Optional values are records told apart by their kind field.            *)
(* The automation capability (DroidAgent.run) is external: every run ends  *)
(* in one of the outcomes of Runs, chosen nondeterministically.            *)
(***************************************************************************)
EXTENDS Integers, Sequences, FiniteSets, TLC

\* ---------------------------------------------------------------- bounds
\* longest provider list handed to compare_prices
MaxApps == 3
\* largest fare the automation reports
MaxPrice == 1

\* ------------------------------------------------------------ data model
None == [kind |-> "None"]

\* self.agents: registry key -> the agent's app_name
agents == [uber |-> "Uber", ola |-> "Ola", rapido |-> "Rapido"]

\* list(self.agents.keys()): dict order of the registry
agents_keys == <<"uber", "ola", "rapido">>

DEFAULT_APPS == <<"uber", "ola", "rapido">>

\* names a caller may request; "lyft" has no registered agent
Names == {"uber", "ola", "rapido", "lyft"}

\* fares a price run may report: estimated_price is a float without a lower
\* bound, so a fare below zero passes validation
Prices == -1..MaxPrice

\* outcomes of one automation run, as the agents tell them apart
Runs == {"success_structured", "success_empty", "failure", "raises"}

\* the structured output of a price run
PriceInfo(app_name, p) ==
  [kind |-> "PriceInfo", app_name |-> app_name, estimated_price |-> p,
   available |-> TRUE]

\* PriceInfo(..., available=False): the ride type is not on offer now
Unavailable(app_name, p) ==
  [PriceInfo(app_name, p) EXCEPT !.available = FALSE]

\* the structured outputs a price run of agent `app` may report: the goal asks
\* for the agent's app_name ("Uber") and nothing checks what comes back, so
\* the agent's app_name at any fare, the registry key as app_name, or a ride
\* that is not available
Quotes(app) ==
  {PriceInfo(agents[app], p) : p \in Prices}
  \cup {PriceInfo(app, 0), Unavailable(agents[app], 0)}

\* the structured output of a booking run
BookingInfo(app_name, p) ==
  [kind |-> "BookingInfo", app_name |-> app_name, estimated_price |-> p]

ComparisonResult(prices, cheapest_app, cheapest_price, comparison_summary) ==
  [kind |-> "ComparisonResult", prices |-> prices,
   cheapest_app |-> cheapest_app, cheapest_price |-> cheapest_price,
   comparison_summary |-> comparison_summary]

\* ------------------------------------------------------------- dict ops
RECURSIVE dict_index(_, _, _)
dict_index(d, k, i) ==
  IF i > Len(d) THEN 0
  ELSE IF d[i].key = k THEN i ELSE dict_index(d, k, i + 1)

dict_has(d, k) == dict_index(d, k, 1) # 0

dict_get(d, k) == d[dict_index(d, k, 1)].val

\* a store keyed by the name the quote itself carries
dict_set_by_app_name(d, k, v) ==
  IF dict_has(d, v.app_name)
  THEN [d EXCEPT ![dict_index(d, v.app_name, 1)] = [key |-> v.app_name, val |-> v]]
  ELSE Append(d, [key |-> v.app_name, val |-> v])

\* d[k] = v: an existing key keeps its position, a new key is appended
dict_set(d, k, v) ==
  IF dict_has(d, k)
  THEN [d EXCEPT ![dict_index(d, k, 1)] = [key |-> k, val |-> v]]
  ELSE Append(d, [key |-> k, val |-> v])

dict_keys(d) == [i \in 1..Len(d) |-> d[i].key]

\* Python truthiness of an Optional[PriceInfo] / Optional[BookingInfo]
truthy(x) == x.kind # "None"

True == [kind |-> "True"]

False == [kind |-> "False"]

\* an exception in flight (any subclass of Exception)
Exception == [kind |-> "Exception"]

\* ------------------------------------------------------------------ text
\* text is a sequence of characters; a printable ASCII character, a tab, a
\* line feed, a form feed and a carriage return are written as themselves,
\* every other character by its code point ("U+212A")
UpperCase ==
  <<"A", "B", "C", "D", "E", "F", "G", "H", "I", "J", "K", "L", "M",
    "N", "O", "P", "Q", "R", "S", "T", "U", "V", "W", "X", "Y", "Z">>

LowerCase ==
  <<"a", "b", "c", "d", "e", "f", "g", "h", "i", "j", "k", "l", "m",
    "n", "o", "p", "q", "r", "s", "t", "u", "v", "w", "x", "y", "z">>

Digits == <<"0", "1", "2", "3", "4", "5", "6", "7", "8", "9">>

\* the Arabic-Indic digits, decimal digits outside ASCII
ArabicIndicDigits ==
  <<"U+0660", "U+0661", "U+0662", "U+0663", "U+0664", "U+0665", "U+0666",
    "U+0667", "U+0668", "U+0669">>

\* the characters int() reads and \d matches, each run in the order of its
\* values
Decimals == <<Digits, ArabicIndicDigits>>

\* superscript two, three and one: str.isdigit() holds, int() rejects them
SuperscriptDigits == {"U+00B2", "U+00B3", "U+00B9"}

\* letters outside ASCII that str.lower() changes: capital I with dot above,
\* capital sharp s, the Kelvin sign, the Angstrom sign
UpperOther == <<"U+0130", "U+1E9E", "U+212A", "U+212B">>

\* what str.lower() makes of them; the first becomes two characters
LowerOther == <<<<"i", "U+0307">>, <<"U+00DF">>, <<"k">>, <<"U+00E5">>>>

\* the characters str.isspace() holds for, which are the ones \s matches in a
\* str pattern and str.strip() removes
Whitespace ==
  {" ", "\t", "\n", "\f", "\r", "U+000B", "U+001C", "U+001D", "U+001E",
   "U+001F", "U+0085", "U+00A0", "U+1680", "U+2000", "U+2001", "U+2002",
   "U+2003", "U+2004", "U+2005", "U+2006", "U+2007", "U+2008", "U+2009",
   "U+200A", "U+2028", "U+2029", "U+202F", "U+205F", "U+3000"}

\* the ASCII punctuation; the grave accent is written by its code point
Punctuation ==
  {"!", "\"", "#", "$", "%", "&", "'", "(", ")", "*", "+", ",", "-", ".", "/",
   ":", ";", "<", "=", ">", "?", "@", "[", "\\", "]", "^", "_", "U+0060", "{",
   "|", "}", "~"}

\* the characters of the model
Alphabet ==
  {UpperCase[k] : k \in 1..Len(UpperCase)}
  \cup {LowerCase[k] : k \in 1..Len(LowerCase)}
  \cup {Decimals[g][k] : g \in 1..Len(Decimals), k \in 1..Len(Digits)}
  \cup {UpperOther[k] : k \in 1..Len(UpperOther)}
  \cup {"U+0307", "U+00DF", "U+00E5"}
  \cup SuperscriptDigits \cup Whitespace \cup Punctuation

\* a character of the model; the model gives no value to an operation on a
\* character it does not hold
known(c) == CASE c \in Alphabet -> c

\* str.lower() of one character: a text, as one character may become two
lower_char(c) ==
  IF \E k \in 1..Len(UpperCase) : UpperCase[k] = c
  THEN <<LowerCase[CHOOSE k \in 1..Len(UpperCase) : UpperCase[k] = c]>>
  ELSE IF \E k \in 1..Len(UpperOther) : UpperOther[k] = c
  THEN LowerOther[CHOOSE k \in 1..Len(UpperOther) : UpperOther[k] = c]
  ELSE <<known(c)>>

\* str.lower(): the lowered characters in their order; the text is taken in
\* halves so that a long text does not nest deeply
RECURSIVE lower(_)
lower(s) ==
  IF s = <<>> THEN <<>>
  ELSE IF Len(s) = 1 THEN lower_char(s[1])
  ELSE LET half == Len(s) \div 2
       IN lower(SubSeq(s, 1, half)) \o lower(SubSeq(s, half + 1, Len(s)))

\* ------------------------------------------------------ provider agents
\* values of RidePreferences.ride_type, a str no validator restricts
RideTypes ==
  {<<"c", "a", "r">>, <<"r", "i", "c", "k", "s", "h", "a", "w">>,
   <<"b", "i", "k", "e">>, <<"p", "r", "e", "m", "i", "u", "m">>,
   <<"a", "u", "t", "o">>, <<"s", "h", "u", "t", "t", "l", "e">>,
   <<"B", "i", "k", "e">>, <<"A", "U", "T", "O">>}

\* RidePreferences as the agents read it
RidePreferences(ride_type) == [kind |-> "RidePreferences", ride_type |-> ride_type]

DefaultPreferences == RidePreferences(<<"c", "a", "r">>)

\* _map_ride_type of the three agents: mapping.get(preference.lower(), default)
map_ride_type(app, preference) ==
  LET key == lower(preference) IN
  CASE app = "uber" ->
         (CASE key = <<"c", "a", "r">> -> "UberGo"
            [] key = <<"r", "i", "c", "k", "s", "h", "a", "w">> -> "Uber Auto"
            [] key = <<"b", "i", "k", "e">> -> "Uber Moto"
            [] key = <<"p", "r", "e", "m", "i", "u", "m">> -> "Uber XL"
            [] key = <<"a", "u", "t", "o">> -> "Uber Auto"
            [] OTHER -> "UberGo")
    [] app = "ola" ->
         (CASE key = <<"c", "a", "r">> -> "Ola Prime"
            [] key = <<"r", "i", "c", "k", "s", "h", "a", "w">> -> "Ola Auto"
            [] key = <<"b", "i", "k", "e">> -> "Ola Bike"
            [] key = <<"p", "r", "e", "m", "i", "u", "m">> -> "Ola Plus"
            [] key = <<"a", "u", "t", "o">> -> "Ola Auto"
            [] OTHER -> "Ola Prime")
    [] OTHER ->
         (CASE key = <<"c", "a", "r">> -> "Auto"
            [] key = <<"r", "i", "c", "k", "s", "h", "a", "w">> -> "Auto"
            [] key = <<"b", "i", "k", "e">> -> "Bike"
            [] key = <<"p", "r", "e", "m", "i", "u", "m">> -> "Auto"
            [] key = <<"a", "u", "t", "o">> -> "Auto"
            [] OTHER -> "Auto")

\* the body of open_app's try block: result = await agent.run()
open_app_try(run) ==
  IF run = "raises" THEN Exception
  ELSE IF run \in {"success_structured", "success_empty"} THEN True
  ELSE False

\* open_app: except Exception -> return False
open_app(run) ==
  LET r == open_app_try(run) IN IF r.kind = "Exception" THEN False ELSE r

\* the body of get_price's try block; preferences = None raises at
\* preferences.ride_type before the goal is built
get_price_try(preferences, run, structured_output) ==
  IF preferences.kind = "None" THEN Exception
  ELSE IF run = "raises" THEN Exception
  ELSE IF run = "success_structured" /\ truthy(structured_output)
       THEN structured_output
  ELSE None

\* a get_price without its except clause
get_price_unguarded(preferences, run, structured_output) ==
  get_price_try(preferences, run, structured_output)

\* get_price: except Exception -> return None
get_price(preferences, run, structured_output) ==
  LET r == get_price_try(preferences, run, structured_output) IN
  IF r.kind = "Exception" THEN None ELSE r

\* the body of book_ride's try block; price_info = None raises at
\* price_info.ride_type, preferences = None at preferences.passengers
book_ride_try(preferences, price_info, run, structured_output) ==
  IF price_info.kind = "None" \/ preferences.kind = "None" THEN Exception
  ELSE IF run = "raises" THEN Exception
  ELSE IF run = "success_structured" /\ truthy(structured_output)
       THEN structured_output
  ELSE None

\* book_ride: except Exception -> return None
book_ride(preferences, price_info, run, structured_output) ==
  LET r == book_ride_try(preferences, price_info, run, structured_output) IN
  IF r.kind = "Exception" THEN None ELSE r

close_app == True

\* _build_price_goal: the agent's name and the provider's ride-type label
build_price_goal(app, preferences) ==
  [app_name |-> agents[app],
   ride_type |-> map_ride_type(app, preferences.ride_type)]

\* _build_booking_goal: the agent's name and the quoted fare
build_booking_goal(app, preferences, price_info) ==
  [app_name |-> agents[app], estimated_price |-> price_info.estimated_price]

\* --------------------------------------------- compare_prices, pure parts
\* the units compare_prices schedules: one per requested name that has an
\* agent, in the order of apps; the loop only creates the coroutines, none has
\* run yet; calls lists the agent operations a unit has invoked so far
RECURSIVE schedule(_, _)
schedule(a, i) ==
  IF i > Len(a) THEN <<>>
  ELSE IF a[i] \in DOMAIN agents
       THEN <<[app |-> a[i], pc |-> "created", result |-> None,
               calls |-> <<>>, opened |-> None]>> \o schedule(a, i + 1)
       ELSE schedule(a, i + 1)

\* an aggregation that takes only the quotes of rides on offer
quoted_available(result) == truthy(result) /\ result.available

\* "if result:" a PriceInfo is truthy, whatever its fields hold
quoted(result) == truthy(result)

\* an aggregation loop that stops at the first unit without a quote
RECURSIVE collect_until_failure(_, _, _, _)
collect_until_failure(a, results, i, prices) ==
  IF i > Len(a) THEN prices
  ELSE IF a[i] \notin DOMAIN agents THEN collect_until_failure(a, results, i + 1, prices)
  ELSE IF i > Len(results) THEN prices
  ELSE IF results[i].kind = "Exception" THEN prices
  ELSE IF truthy(results[i])
       THEN collect_until_failure(a, results, i + 1,
              IF dict_has(prices, a[i])
              THEN [prices EXCEPT ![dict_index(prices, a[i], 1)] =
                      [key |-> a[i], val |-> results[i]]]
              ELSE Append(prices, [key |-> a[i], val |-> results[i]]))
       ELSE prices

\* the aggregation loop: for i, app_name in enumerate(apps); i is the
\* 1-based position in apps and indexes results as the code does
RECURSIVE collect(_, _, _, _)
collect(a, results, i, prices) ==
  IF i > Len(a) THEN prices
  ELSE IF a[i] \notin DOMAIN agents THEN collect(a, results, i + 1, prices)
  ELSE IF i > Len(results) THEN collect(a, results, i + 1, prices)
  ELSE IF results[i].kind = "Exception" THEN collect(a, results, i + 1, prices)
  ELSE IF quoted(results[i])
       THEN collect(a, results, i + 1, dict_set(prices, a[i], results[i]))
       ELSE collect(a, results, i + 1, prices)

\* a min that lets a later equal element replace the earlier one
less_or_equal(x, y) == x <= y

\* Python's min keeps the first element unless a later one is strictly less
less_than(x, y) == x < y

RECURSIVE min_scan(_, _, _)
min_scan(prices, i, best) ==
  IF i > Len(prices) THEN best
  ELSE IF less_than(prices[i].val.estimated_price,
                    dict_get(prices, best).estimated_price)
       THEN min_scan(prices, i + 1, prices[i].key)
       ELSE min_scan(prices, i + 1, best)

\* min(prices.keys(), key=lambda k: prices[k].estimated_price)
min_key(prices) == min_scan(prices, 2, prices[1].key)

\* str.upper() of a provider name
upper(app_name) ==
  CASE app_name = "uber" -> "UBER"
    [] app_name = "ola" -> "OLA"
    [] app_name = "rapido" -> "RAPIDO"
    [] app_name = "lyft" -> "LYFT"
    [] OTHER -> app_name

\* an order that puts an item before the items of the same price
goes_before_or_equal(x, y) == x.val.estimated_price <= y.val.estimated_price

\* sorted() puts x before y, which precedes it in the dict, only when x is
\* cheaper: the sort is stable
goes_before(x, y) == x.val.estimated_price < y.val.estimated_price

RECURSIVE sorted_insert(_, _)
sorted_insert(sorted, x) ==
  IF sorted = <<>> THEN <<x>>
  ELSE IF goes_before(x, Head(sorted)) THEN <<x>> \o sorted
  ELSE <<Head(sorted)>> \o sorted_insert(Tail(sorted), x)

\* sorted(prices.items(), key=lambda x: x[1].estimated_price)
RECURSIVE sorted_prices(_, _)
sorted_prices(prices, n) ==
  IF n = 0 THEN <<>>
  ELSE sorted_insert(sorted_prices(prices, n - 1), prices[n])

\* _build_comparison_summary: what the text holds, one entry per line group
\* of the ranking, then the "Cheapest Option" line
build_comparison_summary(prices, cheapest_app) ==
  LET ranked == sorted_prices(prices, Len(prices))
  IN [ranking |->
        [rank \in 1..Len(ranked) |->
           [emoji |-> IF ranked[rank].key = cheapest_app THEN "first"
                      ELSE IF rank = 2 THEN "second" ELSE "third",
            rank |-> rank,
            app_name |-> upper(ranked[rank].key),
            fare |-> ranked[rank].val.estimated_price]],
      cheapest_option |->
        [app_name |-> upper(cheapest_app),
         fare |-> dict_get(prices, cheapest_app).estimated_price]]

\* a result whose price is read from the first entry, not from the cheapest
make_comparison_first_price(prices) ==
  ComparisonResult(prices, min_key(prices), prices[1].val.estimated_price,
                   build_comparison_summary(prices, min_key(prices)))

\* the ComparisonResult compare_prices builds from a non-empty prices dict
make_comparison(prices) ==
  LET cheapest_app == min_key(prices) IN
  ComparisonResult(prices, cheapest_app,
                   dict_get(prices, cheapest_app).estimated_price,
                   build_comparison_summary(prices, cheapest_app))

ValueError == [kind |-> "ValueError"]

\* a compare_prices that hands back an empty result instead of raising
compare_prices_end_empty(a, results) ==
  LET prices == collect(a, results, 1, <<>>) IN
  IF prices = <<>> THEN ComparisonResult(<<>>, "none", 0, None)
  ELSE make_comparison(prices)

\* compare_prices after gather: the ComparisonResult, or the ValueError raised
\* when no price was collected
compare_prices_end(a, results) ==
  LET prices == collect(a, results, 1, <<>>) IN
  IF prices = <<>> THEN ValueError ELSE make_comparison(prices)

\* a wait that returns as soon as one unit has settled
gather_first_completed(ts) == \E i \in 1..Len(ts) : ts[i].pc = "settled"

\* asyncio.gather returns once every scheduled unit has settled
gather_done(ts) == \A i \in 1..Len(ts) : ts[i].pc = "settled"

\* the first step of _fetch_price_from_app, run by the event loop once
\* compare_prices is suspended at gather: agent = self.agents[app_name], then
\* agent.open_app() is invoked
fetch_start(unit) ==
  [unit EXCEPT !.pc = "open", !.calls = Append(@, "open_app")]

\* the unit the event loop runs next: tasks start in the order gather
\* created them
next_created(ts) ==
  {i \in 1..Len(ts) :
     /\ ts[i].pc = "created"
     /\ \A j \in 1..(i - 1) : ts[j].pc # "created"}

\* the units that have neither returned nor been cancelled
running(ts) == {i \in 1..Len(ts) : ts[i].pc \notin {"settled", "cancelled"}}

\* the gather was cancelled: a unit has received CancelledError, and the
\* units still running will receive it before they can go on
cancelling(ts) == \E i \in 1..Len(ts) : ts[i].pc = "cancelled"

\* the units that have received CancelledError
cancelled(ts) == {i \in 1..Len(ts) : ts[i].pc = "cancelled"}

\* the units that may receive CancelledError next, where woken holds the units
\* whose awaited run may have ended in the loop iteration of wait_for's timer.
\* The gather cancels its children in the order they were created; a child
\* whose run has ended is already waiting in the loop's ready queue, so it
\* receives the error before the children the cancellation wakes, and those
\* follow in creation order.
next_cancelled(ts, woken) ==
  {i \in running(ts) :
     \/ i \in woken /\ cancelled(ts) \subseteq woken
     \/ /\ \A j \in running(ts) : i <= j
        /\ \A c \in cancelled(ts) \ woken : c < i}

\* a unit that calls open_app a second time when the first call failed
fetch_after_open_retry(unit, ret) ==
  IF ret.kind = "True"
  THEN [unit EXCEPT !.pc = "get_price", !.calls = Append(@, "get_price")]
  ELSE IF Len(unit.calls) < 2
       THEN [unit EXCEPT !.pc = "open", !.calls = Append(@, "open_app")]
       ELSE [unit EXCEPT !.pc = "settled", !.result = None]

\* a unit that goes on to get_price whatever open_app returned
fetch_after_open_unchecked(unit, ret) ==
  [unit EXCEPT !.pc = "get_price", !.opened = ret,
               !.calls = Append(@, "get_price")]

\* _fetch_price_from_app after open_app returned ret (kept in opened): return
\* None when the app did not open, else invoke agent.get_price
fetch_after_open(unit, ret) ==
  IF ret.kind = "Exception" THEN [unit EXCEPT !.pc = "settled", !.result = None]
  ELSE IF ret.kind # "True"
       THEN [unit EXCEPT !.pc = "settled", !.result = None, !.opened = ret]
  ELSE [unit EXCEPT !.pc = "get_price", !.opened = ret,
                    !.calls = Append(@, "get_price")]

\* _fetch_price_from_app after get_price returned price: invoke
\* agent.close_app, return price
fetch_after_price(unit, price) ==
  IF price.kind = "Exception" THEN [unit EXCEPT !.pc = "settled", !.result = None]
  ELSE [unit EXCEPT !.pc = "settled", !.result = price,
                    !.calls = Append(@, "close_app")]

\* ------------------------------------------------------------------ state
VARIABLES
  caller,           \* entry point in progress: "none", "direct", "cli", "book"
  apps,             \* the apps argument of the compare_prices call in progress
  tasks,            \* the units gather awaits: [app, pc, result, calls, opened]
  cp,               \* compare_prices: "idle", "gather", "returned", "raised", "cancelled"
  comparison,       \* what compare_prices returned (None until it returns)
  last_comparison,  \* self.last_comparison
  last_booking,     \* self.last_booking
  prior_comparison, \* self.last_comparison when the request began
  supplied,         \* the comparison argument of book_cheapest
  bk,               \* book_cheapest: "idle", "compare", "book_ride", "returned"
  book_calls,       \* every book_ride invocation: [agent, price_info, ret]
  booking,          \* what book_cheapest returned (None until it returns)
  cli,              \* the CLI request: "idle", "waiting", "shown", "timeout", "error"
  agent_call,       \* one provider-agent operation called on its own
  parse_call,       \* one preference extraction: [kind, user_input, ret]
  requests,         \* operations in flight together on one orchestrator
  clock             \* seconds since wait_for began, and when each unit's run ends

vars == <<caller, apps, tasks, cp, comparison, last_comparison, last_booking,
          prior_comparison, supplied, bk, book_calls, booking, cli, agent_call,
          parse_call, requests, clock>>

\* the provider lists a caller passes: every list of at most MaxApps names,
\* each name at most once (as in DEFAULT_APPS and agents.keys())
AppLists ==
  {a \in UNION {[1..n -> Names] : n \in 0..MaxApps} :
     \A i, j \in 1..Len(a) : a[i] = a[j] => i = j}

\* a result an earlier compare_prices(["ola"]) left in self.last_comparison
PriorComparison == make_comparison(<<[key |-> "ola", val |-> PriceInfo("Ola", 1)]>>)

\* the confirmation an earlier book_cheapest on that comparison left in
\* self.last_booking
PriorBooking == BookingInfo("Ola", 1)

NoCall == [kind |-> "None"]

\* no comparison is running against a deadline
NoClock == [now |-> 0, ends |-> <<>>]

\* the orchestrator after construction, no operation called yet
Idle ==
  /\ caller = "none"
  /\ apps = <<>>
  /\ tasks = <<>>
  /\ cp = "idle"
  /\ comparison = None
  /\ last_comparison \in {None, PriorComparison}
  /\ prior_comparison = last_comparison
  /\ last_booking = IF last_comparison = None THEN None ELSE PriorBooking
  /\ supplied = None
  /\ bk = "idle"
  /\ book_calls = <<>>
  /\ booking = None
  /\ cli = "idle"
  /\ agent_call = NoCall
  /\ requests = <<>>
  /\ clock = NoClock

Init ==
  /\ Idle
  /\ parse_call = NoCall

\* booking on the first provider of the comparison instead of the cheapest
book_target_first(c) == c.prices[1].key

\* the provider book_cheapest books on: cheapest_app = comparison.cheapest_app
book_target(c) == c.cheapest_app

\* a handler that hands the caught failure to the caller
book_cheapest_reraise(e) == e

\* what book_cheapest returns from its except handler
book_cheapest_except(e) == None

\* book_cheapest from "cheapest_app = comparison.cheapest_app" up to the
\* await inside agent.book_ride; a KeyError is caught by the handler
book_invoke(c) ==
  IF dict_has(c.prices, book_target(c)) /\ book_target(c) \in DOMAIN agents
  THEN /\ book_calls' = Append(book_calls,
                          [agent |-> book_target(c),
                           price_info |-> dict_get(c.prices, book_target(c)),
                           ret |-> None])
       /\ bk' = "book_ride"
       /\ booking' = None
  ELSE /\ book_calls' = book_calls
       /\ bk' = "returned"
       /\ booking' = book_cheapest_except(Exception)

\* a compare_prices that clears the stored comparison when it raises
stored_comparison_cleared(stored, r) ==
  IF r.kind = "ValueError" THEN None ELSE r

\* self.last_comparison after compare_prices ended with r: the raise leaves
\* the function before the assignment, self.last_comparison = comparison_result
\* is the last statement before the return
stored_comparison(stored, r) ==
  IF r.kind = "ValueError" THEN stored ELSE r

\* a ZeroDivisionError in flight
ZeroDivisionError == Exception

\* the CLI's _display_comparison: the table, then with two or more quotes
\* savings / second_cheapest * 100, which raises when that fare is 0
display_comparison(c) ==
  LET sorted_apps == sorted_prices(c.prices, Len(c.prices)) IN
  IF Len(sorted_apps) > 1 /\ sorted_apps[2].val.estimated_price = 0
  THEN ZeroDivisionError
  ELSE None

\* compare_prices up to the await on gather; with no unit gather() is done at
\* once, the await does not suspend and compare_prices goes on to its end
compare_prices_begin(a) ==
  LET units == schedule(a, 1)
      r == compare_prices_end(a, <<>>)
  IN /\ apps' = a
     /\ tasks' = units
     /\ IF units # <<>>
        THEN /\ cp' = "gather"
             /\ comparison' = None
             /\ last_comparison' = last_comparison
        ELSE /\ cp' = IF r.kind = "ValueError" THEN "raised" ELSE "returned"
             /\ comparison' = IF r.kind = "ValueError" THEN None ELSE r
             /\ last_comparison' = stored_comparison(last_comparison, r)

\* a caller invokes compare_prices(pickup, destination, preferences, apps)
ComparePrices ==
  \E a \in AppLists :
    /\ caller = "none"
    /\ caller' = "direct"
    /\ compare_prices_begin(a)
    /\ UNCHANGED <<last_booking, prior_comparison, supplied, bk, book_calls,
                   booking, cli, agent_call, parse_call, requests, clock>>

\* the CLI's _process_booking_request: wait_for(compare_prices(.., DEFAULT_APPS))
ProcessBookingRequest ==
  /\ caller = "none"
  /\ caller' = "cli"
  /\ cli' = "waiting"
  /\ compare_prices_begin(DEFAULT_APPS)
  /\ UNCHANGED <<last_booking, prior_comparison, supplied, bk, book_calls,
                 booking, agent_call, parse_call, requests, clock>>

\* book_cheapest(..., comparison=None): runs compare_prices over all agents
BookCheapest ==
  /\ caller = "none"
  /\ caller' = "book"
  /\ supplied' = None
  /\ bk' = "compare"
  /\ compare_prices_begin(agents_keys)
  /\ UNCHANGED <<last_booking, prior_comparison, book_calls, booking, cli,
                 agent_call, parse_call, requests, clock>>

\* book_cheapest(..., comparison=c) with a comparison the caller holds: the
\* one compare_prices just returned, or the stored one
BookCheapestWith ==
  \E c \in {comparison, last_comparison} \ {None} :
    /\ \/ caller = "none"
       \/ caller = "direct" /\ cp = "returned"
    /\ bk = "idle"
    /\ caller' = "book"
    /\ supplied' = c
    /\ book_invoke(c)
    /\ UNCHANGED <<apps, tasks, cp, comparison, last_comparison, last_booking,
                   prior_comparison, cli, agent_call, parse_call, requests,
                   clock>>

\* the event loop runs the first step of the next unit
UnitStart ==
  \E i \in next_created(tasks) :
    /\ cp = "gather"
    /\ ~cancelling(tasks)
    /\ tasks' = [tasks EXCEPT ![i] = fetch_start(tasks[i])]
    /\ UNCHANGED <<caller, apps, cp, comparison, last_comparison, last_booking,
                   prior_comparison, supplied, bk, book_calls, booking, cli,
                   agent_call, parse_call, requests, clock>>

\* unit i's open_app run ends
OpenAppDone ==
  \E i \in 1..Len(tasks), run \in Runs :
    /\ cp = "gather"
    /\ ~cancelling(tasks)
    /\ tasks[i].pc = "open"
    /\ tasks' = [tasks EXCEPT ![i] = fetch_after_open(tasks[i], open_app(run))]
    /\ UNCHANGED <<caller, apps, cp, comparison, last_comparison, last_booking,
                   prior_comparison, supplied, bk, book_calls, booking, cli,
                   agent_call, parse_call, requests, clock>>

\* unit i's get_price run ends; the unit closes the app and returns
GetPriceDone ==
  \E i \in 1..Len(tasks), run \in Runs :
    \E structured_output \in Quotes(tasks[i].app) :
    /\ cp = "gather"
    /\ ~cancelling(tasks)
    /\ tasks[i].pc = "get_price"
    /\ tasks' = [tasks EXCEPT ![i] =
                   fetch_after_price(tasks[i],
                     get_price(DefaultPreferences, run, structured_output))]
    /\ UNCHANGED <<caller, apps, cp, comparison, last_comparison, last_booking,
                   prior_comparison, supplied, bk, book_calls, booking, cli,
                   agent_call, parse_call, requests, clock>>

\* gather returns: compare_prices aggregates, and its caller goes on
Gather ==
  /\ cp = "gather"
  /\ gather_done(tasks)
  /\ LET results == [i \in 1..Len(tasks) |-> tasks[i].result]
         r == compare_prices_end(apps, results)
     IN IF r.kind = "ValueError"
        THEN \* raise ValueError("Could not fetch prices from any app")
             /\ cp' = "raised"
             /\ comparison' = None
             /\ last_comparison' = stored_comparison(last_comparison, r)
             /\ cli' = IF caller = "cli" /\ cli = "waiting" THEN "error" ELSE cli
             /\ bk' = IF caller = "book" THEN "returned" ELSE bk
             /\ booking' = IF caller = "book" THEN book_cheapest_except(r)
                           ELSE booking
             /\ UNCHANGED book_calls
        ELSE /\ cp' = "returned"
             /\ comparison' = r
             /\ last_comparison' = stored_comparison(last_comparison, r)
             /\ cli' = IF caller = "cli" /\ cli = "waiting"
                       THEN IF display_comparison(r).kind = "Exception"
                            THEN "error" ELSE "shown"
                       ELSE cli
             /\ IF caller = "book"
                THEN book_invoke(r)
                ELSE UNCHANGED <<bk, book_calls, booking>>
  /\ UNCHANGED <<caller, apps, tasks, last_booking, prior_comparison, supplied,
                 agent_call, parse_call, requests, clock>>

\* a unit still running when its gather is cancelled never returns:
\* CancelledError is no Exception, no handler of the unit catches it
cancel(unit) ==
  IF unit.pc = "settled" THEN unit ELSE [unit EXCEPT !.pc = "cancelled"]

\* a deadline that reports the timeout and leaves the comparison running
on_timeout_detached == cp' = cp

\* what wait_for does to compare_prices once the cancelled gather is done:
\* CancelledError is thrown into it at the await
on_timeout == cp' = "cancelled"

\* COMPARISON_TIMEOUT has expired and wait_for has cancelled the gather, which
\* cancels its children: the next unit receives CancelledError, in a callback
\* of its own, while compare_prices is suspended and the CLI waits. The run of
\* any unit may have ended in the iteration of the timer.
CancelUnit ==
  \E i \in next_cancelled(tasks, 1..Len(tasks)) :
    /\ caller = "cli"
    /\ cp = "gather"
    /\ tasks' = [tasks EXCEPT ![i] = cancel(tasks[i])]
    /\ UNCHANGED <<caller, apps, cp, comparison, last_comparison, last_booking,
                   prior_comparison, supplied, bk, book_calls, booking, cli,
                   agent_call, parse_call, requests, clock>>

\* no unit is running any more when the cancellation reaches compare_prices:
\* wait_for raises TimeoutError and the CLI reports the timeout
Deadline ==
  /\ caller = "cli"
  /\ cp = "gather"
  /\ running(tasks) = {}
  /\ on_timeout
  /\ cli' = "timeout"
  /\ UNCHANGED <<caller, apps, tasks, comparison, last_comparison,
                 last_booking, prior_comparison, supplied, bk, book_calls,
                 booking, agent_call, parse_call, requests, clock>>

\* a book_cheapest that stores whatever its book_ride returned
stored_booking_last_attempt(stored, b) ==
  IF b.kind # "Exception" THEN b ELSE stored

\* self.last_booking after agent.book_ride ended with b:
\* "if booking: self.last_booking = booking"; an exception skips the statement
stored_booking(stored, b) ==
  IF b.kind # "Exception" /\ truthy(b) THEN b ELSE stored

\* the book_ride run ends and book_cheapest returns; the booking run reports
\* the agent's app_name and the fare of the goal
BookRideDone ==
  \E run \in Runs :
    /\ bk = "book_ride"
    /\ LET call == book_calls[Len(book_calls)]
           b == book_ride(DefaultPreferences, call.price_info, run,
                          BookingInfo(agents[call.agent],
                                      call.price_info.estimated_price))
       IN /\ book_calls' = [book_calls EXCEPT ![Len(book_calls)].ret = b]
          /\ booking' = IF b.kind = "Exception" THEN book_cheapest_except(b)
                        ELSE b
          /\ last_booking' = stored_booking(last_booking, b)
    /\ bk' = "returned"
    /\ UNCHANGED <<caller, apps, tasks, cp, comparison, last_comparison,
                   prior_comparison, supplied, cli, agent_call, parse_call,
                   requests, clock>>

Next ==
  \/ ComparePrices
  \/ ProcessBookingRequest
  \/ BookCheapest
  \/ BookCheapestWith
  \/ UnitStart
  \/ OpenAppDone
  \/ GetPriceDone
  \/ Gather
  \/ CancelUnit
  \/ Deadline
  \/ BookRideDone

Spec == Init /\ [][Next]_vars

\* ------------------------------------- one agent operation called on its own
\* what an automation run may hand back as structured_output of a price run
PriceOutputs(app) == {None} \cup Quotes(app)

PreferenceInputs == {None} \cup {RidePreferences(t) : t \in RideTypes}

InitAgent ==
  /\ Init
  /\ last_comparison = None

CallOpenApp ==
  \E app \in DOMAIN agents, run \in Runs :
    /\ caller = "none"
    /\ agent_call' = [kind |-> "open_app", agent |-> app, run |-> run,
                      ret |-> open_app(run)]
    /\ UNCHANGED <<caller, apps, tasks, cp, comparison, last_comparison,
                   last_booking, prior_comparison, supplied, bk, book_calls,
                   booking, cli, parse_call, requests, clock>>

CallGetPrice ==
  \E app \in DOMAIN agents, run \in Runs, preferences \in PreferenceInputs :
    \E out \in PriceOutputs(app) :
    /\ caller = "none"
    /\ agent_call' = [kind |-> "get_price", agent |-> app, run |-> run,
                      preferences |-> preferences,
                      goal |-> IF preferences.kind = "None" THEN None
                               ELSE build_price_goal(app, preferences),
                      structured_output |-> out,
                      ret |-> get_price(preferences, run, out)]
    /\ UNCHANGED <<caller, apps, tasks, cp, comparison, last_comparison,
                   last_booking, prior_comparison, supplied, bk, book_calls,
                   booking, cli, parse_call, requests, clock>>

CallBookRide ==
  \E app \in DOMAIN agents, run \in Runs,
     preferences \in {None, DefaultPreferences} :
    \E price_info \in PriceOutputs(app) :
    \E out \in {None, BookingInfo(agents[app], 0)} :
    /\ caller = "none"
    /\ agent_call' = [kind |-> "book_ride", agent |-> app, run |-> run,
                      preferences |-> preferences,
                      price_info |-> price_info,
                      goal |-> IF preferences.kind = "None"
                                  \/ price_info.kind = "None" THEN None
                               ELSE build_booking_goal(app, preferences, price_info),
                      structured_output |-> out,
                      ret |-> book_ride(preferences, price_info, run, out)]
    /\ UNCHANGED <<caller, apps, tasks, cp, comparison, last_comparison,
                   last_booking, prior_comparison, supplied, bk, book_calls,
                   booking, cli, parse_call, requests, clock>>

CallCloseApp ==
  \E app \in DOMAIN agents :
    /\ caller = "none"
    /\ agent_call' = [kind |-> "close_app", agent |-> app, ret |-> close_app]
    /\ UNCHANGED <<caller, apps, tasks, cp, comparison, last_comparison,
                   last_booking, prior_comparison, supplied, bk, book_calls,
                   booking, cli, parse_call, requests, clock>>

NextAgent ==
  \/ CallOpenApp
  \/ CallGetPrice
  \/ CallBookRide
  \/ CallCloseApp

SpecAgent == InitAgent /\ [][NextAgent]_vars

\* ------------------------ operations in flight together on one orchestrator
\* operations a caller starts on one orchestrator without awaiting the others
MaxRequests == 2

\* compare_prices(pickup, destination, preferences) up to the await on gather:
\* apps defaults to list(self.agents.keys())
compare_request ==
  [op |-> "compare_prices", tasks |-> schedule(agents_keys, 1), pc |-> "gather",
   agent |-> "none", price_info |-> None]

\* book_cheapest(..., comparison=c) up to the await inside agent.book_ride
book_request(c) ==
  [op |-> "book_cheapest", tasks |-> <<>>, pc |-> "book_ride",
   agent |-> book_target(c), price_info |-> dict_get(c.prices, book_target(c))]

\* the agents a request has an operation in flight on: agent =
\* self.agents[app_name], the instance __init__ put in the registry
operated_on(request) ==
  (IF request.pc = "book_ride" THEN {agents[request.agent]} ELSE {})
  \cup {agents[request.tasks[i].app] :
          i \in {j \in 1..Len(request.tasks) :
                   /\ request.pc = "gather"
                   /\ request.tasks[j].pc \in {"open", "get_price"}}}

StartComparePrices ==
  /\ Len(requests) < MaxRequests
  /\ requests' = Append(requests, compare_request)
  /\ UNCHANGED <<caller, apps, tasks, cp, comparison, last_comparison,
                 last_booking, prior_comparison, supplied, bk, book_calls,
                 booking, cli, agent_call, parse_call, clock>>

StartBookCheapest ==
  /\ Len(requests) < MaxRequests
  /\ truthy(last_comparison)
  /\ requests' = Append(requests, book_request(last_comparison))
  /\ UNCHANGED <<caller, apps, tasks, cp, comparison, last_comparison,
                 last_booking, prior_comparison, supplied, bk, book_calls,
                 booking, cli, agent_call, parse_call, clock>>

\* the event loop runs the first step of the next unit of request r
RequestUnitStart ==
  \E r \in 1..Len(requests) :
    \E i \in next_created(requests[r].tasks) :
      /\ requests[r].pc = "gather"
      /\ requests' = [requests EXCEPT ![r].tasks[i] = fetch_start(@)]
      /\ UNCHANGED <<caller, apps, tasks, cp, comparison, last_comparison,
                     last_booking, prior_comparison, supplied, bk, book_calls,
                     booking, cli, agent_call, parse_call, clock>>

\* the open_app run of unit i of request r ends
RequestOpenAppDone ==
  \E r \in 1..Len(requests), run \in Runs :
    \E i \in 1..Len(requests[r].tasks) :
      /\ requests[r].pc = "gather"
      /\ requests[r].tasks[i].pc = "open"
      /\ requests' = [requests EXCEPT ![r].tasks[i] =
                        fetch_after_open(@, open_app(run))]
      /\ UNCHANGED <<caller, apps, tasks, cp, comparison, last_comparison,
                     last_booking, prior_comparison, supplied, bk, book_calls,
                     booking, cli, agent_call, parse_call, clock>>

\* the get_price run of unit i of request r ends
RequestGetPriceDone ==
  \E r \in 1..Len(requests), run \in Runs :
    \E i \in 1..Len(requests[r].tasks) :
      /\ requests[r].pc = "gather"
      /\ requests[r].tasks[i].pc = "get_price"
      /\ requests' = [requests EXCEPT ![r].tasks[i] =
                        fetch_after_price(@,
                          get_price(DefaultPreferences, run,
                                    PriceInfo(agents[@.app], 0)))]
      /\ UNCHANGED <<caller, apps, tasks, cp, comparison, last_comparison,
                     last_booking, prior_comparison, supplied, bk, book_calls,
                     booking, cli, agent_call, parse_call, clock>>

\* gather of request r returns: compare_prices raises, or stores and returns
RequestGather ==
  \E r \in 1..Len(requests) :
    /\ requests[r].pc = "gather"
    /\ gather_done(requests[r].tasks)
    /\ LET ts == requests[r].tasks
           c == compare_prices_end(agents_keys, [i \in 1..Len(ts) |-> ts[i].result])
       IN /\ requests' = [requests EXCEPT ![r].pc =
                          IF c.kind = "ValueError" THEN "raised" ELSE "returned"]
          /\ last_comparison' = stored_comparison(last_comparison, c)
    /\ UNCHANGED <<caller, apps, tasks, cp, comparison, last_booking,
                   prior_comparison, supplied, bk, book_calls, booking, cli,
                   agent_call, parse_call, clock>>

\* the book_ride run of request r ends and its book_cheapest returns
RequestBookRideDone ==
  \E r \in 1..Len(requests), run \in Runs :
    /\ requests[r].pc = "book_ride"
    /\ requests' = [requests EXCEPT ![r].pc = "returned"]
    /\ LET call == requests[r]
           b == book_ride(DefaultPreferences, call.price_info, run,
                          BookingInfo(agents[call.agent],
                                      call.price_info.estimated_price))
       IN last_booking' = stored_booking(last_booking, b)
    /\ UNCHANGED <<caller, apps, tasks, cp, comparison, last_comparison,
                   prior_comparison, supplied, bk, book_calls, booking, cli,
                   agent_call, parse_call, clock>>

NextConcurrent ==
  \/ StartComparePrices
  \/ StartBookCheapest
  \/ RequestUnitStart
  \/ RequestOpenAppDone
  \/ RequestGetPriceDone
  \/ RequestGather
  \/ RequestBookRideDone

SpecConcurrent == Init /\ [][NextConcurrent]_vars

\* ------------------------------------------ the comparison against the clock
\* DroidAgent(goal=f"Open the {self.app_name} app", ..., timeout=90)
open_app_timeout == 90

\* DroidAgent(goal=goal, ..., output_model=PriceInfo, timeout=180)
get_price_timeout == 180

\* config.COMPARISON_TIMEOUT, the timeout of the CLI's wait_for
COMPARISON_TIMEOUT == 180

\* how long a run takes that respects its timeout: a second, all of it, or
\* what is left of COMPARISON_TIMEOUT after an open_app run of full length
Durations(timeout) ==
  {d \in {1, COMPARISON_TIMEOUT - open_app_timeout, timeout} : d <= timeout}

\* the units whose agent run has not ended
pending(ts) == {i \in 1..Len(ts) : ts[i].pc \in {"open", "get_price"}}

\* the run of unit i is the next to end, and ends before wait_for gives up;
\* no time passes while a unit waits for its first step
due(i) ==
  /\ next_created(tasks) = {}
  /\ ~cancelling(tasks)
  /\ \A j \in pending(tasks) : clock.ends[i] <= clock.ends[j]
  /\ clock.ends[i] <= COMPARISON_TIMEOUT

\* _process_booking_request starts wait_for(compare_prices(.., DEFAULT_APPS),
\* timeout=COMPARISON_TIMEOUT)
TimedProcessBookingRequest ==
  /\ caller = "none"
  /\ caller' = "cli"
  /\ cli' = "waiting"
  /\ compare_prices_begin(DEFAULT_APPS)
  /\ clock' = [now |-> 0, ends |-> [i \in 1..Len(tasks') |-> 0]]
  /\ UNCHANGED <<last_booking, prior_comparison, supplied, bk, book_calls,
                 booking, agent_call, parse_call, requests>>

\* the first step of the next unit: its open_app run starts and takes d seconds
TimedUnitStart ==
  \E i \in next_created(tasks), d \in Durations(open_app_timeout) :
    /\ cp = "gather"
    /\ tasks' = [tasks EXCEPT ![i] = fetch_start(tasks[i])]
    /\ clock' = [clock EXCEPT !.ends[i] = clock.now + d]
    /\ UNCHANGED <<caller, apps, cp, comparison, last_comparison, last_booking,
                   prior_comparison, supplied, bk, book_calls, booking, cli,
                   agent_call, parse_call, requests>>

\* the open_app run of unit i ends; when it opened the app, the get_price run
\* starts and takes d seconds
TimedOpenAppDone ==
  \E i \in pending(tasks), run \in Runs, d \in Durations(get_price_timeout) :
    /\ cp = "gather"
    /\ tasks[i].pc = "open"
    /\ due(i)
    /\ tasks' = [tasks EXCEPT ![i] = fetch_after_open(@, open_app(run))]
    /\ clock' = [now |-> clock.ends[i],
                 ends |-> IF tasks'[i].pc = "get_price"
                          THEN [clock.ends EXCEPT ![i] = @ + d]
                          ELSE clock.ends]
    /\ UNCHANGED <<caller, apps, cp, comparison, last_comparison, last_booking,
                   prior_comparison, supplied, bk, book_calls, booking, cli,
                   agent_call, parse_call, requests>>

\* the get_price run of unit i ends
TimedGetPriceDone ==
  \E i \in pending(tasks), run \in Runs :
    /\ cp = "gather"
    /\ tasks[i].pc = "get_price"
    /\ due(i)
    /\ tasks' = [tasks EXCEPT ![i] =
                   fetch_after_price(@,
                     get_price(DefaultPreferences, run,
                               PriceInfo(agents[@.app], 0)))]
    /\ clock' = [clock EXCEPT !.now = clock.ends[i]]
    /\ UNCHANGED <<caller, apps, cp, comparison, last_comparison, last_booking,
                   prior_comparison, supplied, bk, book_calls, booking, cli,
                   agent_call, parse_call, requests>>

\* the units whose run ends in the second wait_for's timer fires
ends_at_timeout(ts) ==
  {i \in 1..Len(ts) :
     /\ ts[i].pc \in {"open", "get_price", "cancelled"}
     /\ clock.ends[i] = COMPARISON_TIMEOUT}

\* COMPARISON_TIMEOUT seconds have passed and some run has not ended:
\* wait_for's timer cancels the gather, and the next unit receives
\* CancelledError
TimedCancelUnit ==
  \E i \in next_cancelled(tasks, ends_at_timeout(tasks)) :
    /\ caller = "cli"
    /\ cp = "gather"
    /\ next_created(tasks) = {}
    /\ \/ cancelling(tasks)
       \/ \A j \in pending(tasks) : clock.ends[j] >= COMPARISON_TIMEOUT
    /\ tasks' = [tasks EXCEPT ![i] = cancel(tasks[i])]
    /\ clock' = [clock EXCEPT !.now = COMPARISON_TIMEOUT]
    /\ UNCHANGED <<caller, apps, cp, comparison, last_comparison, last_booking,
                   prior_comparison, supplied, bk, book_calls, booking, cli,
                   agent_call, parse_call, requests>>

\* the cancellation reaches compare_prices: wait_for raises TimeoutError
TimedDeadline ==
  /\ caller = "cli"
  /\ cp = "gather"
  /\ running(tasks) = {}
  /\ cancelling(tasks) \/ clock.now = COMPARISON_TIMEOUT
  /\ on_timeout
  /\ cli' = "timeout"
  /\ UNCHANGED <<caller, apps, tasks, comparison, last_comparison,
                 last_booking, prior_comparison, supplied, bk, book_calls,
                 booking, agent_call, parse_call, requests, clock>>

NextTimed ==
  \/ TimedProcessBookingRequest
  \/ TimedUnitStart
  \/ TimedOpenAppDone
  \/ TimedGetPriceDone
  \/ Gather
  \/ TimedCancelUnit
  \/ TimedDeadline

SpecTimed == Init /\ [][NextTimed]_vars

\* ------------------------------------------------- preference extraction
\* kw in s, for strings
contains(kw, s) ==
  \E i \in 1..(Len(s) - Len(kw) + 1) : SubSeq(s, i, i + Len(kw) - 1) = kw

\* any(word in s for word in words)
any_in(words, s) == \E k \in 1..Len(words) : contains(words[k], s)

\* \d of a str pattern: a decimal digit of any script
is_decimal(c) ==
  \E g \in 1..Len(Decimals), k \in 1..Len(Digits) : Decimals[g][k] = known(c)

\* the value int() gives a decimal digit
digit_value(c) ==
  (CHOOSE k \in 1..Len(Digits) :
     \E g \in 1..Len(Decimals) : Decimals[g][k] = c) - 1

\* str.isdigit()
isdigit(kw) ==
  /\ Len(kw) > 0
  /\ \A i \in 1..Len(kw) : is_decimal(kw[i]) \/ kw[i] \in SuperscriptDigits

\* a str value that is not taken apart
Str(value) == [kind |-> "str", value |-> value]

\* config.COMMON_DESTINATIONS, in dict order
COMMON_DESTINATIONS ==
  <<
    [name |-> "work",
     keywords |-> <<<<"w", "o", "r", "k">>,
                  <<"o", "f", "f", "i", "c", "e">>,
                  <<"w", "o", "r", "k", "p", "l", "a", "c", "e">>,
                  <<"c", "o", "m", "p", "a", "n", "y">>>>],
    [name |-> "home",
     keywords |-> <<<<"h", "o", "m", "e">>,
                  <<"h", "o", "u", "s", "e">>,
                  <<"a", "p", "a", "r", "t", "m", "e", "n", "t">>,
                  <<"r", "e", "s", "i", "d", "e", "n", "c", "e">>>>],
    [name |-> "jaypee institute of information technology sec 62 noida",
     keywords |-> <<<<"j", "a", "y", "p", "e", "e">>,
                  <<"j", "i", "i", "t">>,
                  <<"s", "e", "c", " ", "6", "2">>,
                  <<"s", "e", "c", "t", "o", "r", " ", "6", "2">>,
                  <<"n", "o", "i", "d", "a">>>>],
    [name |-> "jaypee institute of information technology sec 128 jaypee wishtown noida",
     keywords |-> <<<<"j", "a", "y", "p", "e", "e">>,
                  <<"j", "i", "i", "t">>,
                  <<"s", "e", "c", " ", "1", "2", "8">>,
                  <<"s", "e", "c", "t", "o", "r", " ", "1", "2", "8">>,
                  <<"w", "i", "s", "h", "t", "o", "w", "n">>,
                  <<"n", "o", "i", "d", "a">>>>]
  >>

\* [kw for kw in keywords if kw in user_lower]
matching_keywords(keywords, user_lower) ==
  LET hit(kw) == contains(kw, user_lower) IN SelectSeq(keywords, hit)

\* the matches dict: destination name -> number of its keywords in the text
RECURSIVE find_matches(_, _)
find_matches(user_lower, d) ==
  IF d > Len(COMMON_DESTINATIONS) THEN <<>>
  ELSE LET found == matching_keywords(COMMON_DESTINATIONS[d].keywords, user_lower)
       IN (IF found # <<>>
           THEN <<[key |-> COMMON_DESTINATIONS[d].name, val |-> Len(found)]>>
           ELSE <<>>) \o find_matches(user_lower, d + 1)

\* len(kw) > 3 and kw.isdigit() or "sec" in kw or "sector" in kw
is_specific(kw) ==
  \/ Len(kw) > 3 /\ isdigit(kw)
  \/ contains(<<"s", "e", "c">>, kw)
  \/ contains(<<"s", "e", "c", "t", "o", "r">>, kw)

\* [kw for kw in keywords if <specific>]
specific_keywords(keywords) == SelectSeq(keywords, is_specific)

\* the loop over COMMON_DESTINATIONS that returns the first matched
\* destination with a specific keyword in the text; None when there is none
RECURSIVE disambiguate(_, _, _)
disambiguate(matches, user_lower, d) ==
  IF d > Len(COMMON_DESTINATIONS) THEN None
  ELSE IF ~dict_has(matches, COMMON_DESTINATIONS[d].name)
       THEN disambiguate(matches, user_lower, d + 1)
  ELSE IF matching_keywords(specific_keywords(COMMON_DESTINATIONS[d].keywords),
                            user_lower) # <<>>
       THEN Str(COMMON_DESTINATIONS[d].name)
  ELSE disambiguate(matches, user_lower, d + 1)

\* max(matches.items(), key=lambda x: x[1])[0]: the first entry with the
\* largest count
RECURSIVE best_match_scan(_, _, _)
best_match_scan(matches, i, best) ==
  IF i > Len(matches) THEN best
  ELSE best_match_scan(matches, i + 1,
         IF matches[i].val > dict_get(matches, best) THEN matches[i].key ELSE best)

\* a choice that takes the first matched destination whatever the counts
best_match_first(matches) == matches[1].key

best_match(matches) == best_match_scan(matches, 2, matches[1].key)

\* a matcher that goes by the number of matched keywords only
match_destination_by_count(user_input) ==
  LET matches == find_matches(lower(user_input), 1)
  IN IF matches = <<>> THEN None ELSE Str(best_match(matches))

\* _match_destination
match_destination(user_input) ==
  LET user_lower == lower(user_input)
      matches == find_matches(user_lower, 1)
  IN IF matches = <<>> THEN None
     ELSE IF Len(matches) = 1 THEN Str(matches[1].key)
     ELSE LET specific == disambiguate(matches, user_lower, 1)
          IN IF specific # None THEN specific ELSE Str(best_match(matches))

\* \s of the two regular expressions
is_space(c) == c \in Whitespace

\* [a-zA-Z]
is_alpha(c) ==
  \E k \in 1..Len(LowerCase) : LowerCase[k] = c \/ UpperCase[k] = c

\* the text has the literal m at position i
starts_at(s, i, m) ==
  i >= 1 /\ i + Len(m) - 1 <= Len(s) /\ SubSeq(s, i, i + Len(m) - 1) = m

\* the last position of the run of whitespace that begins at j
RECURSIVE space_run_end(_, _)
space_run_end(s, j) ==
  IF j < Len(s) /\ is_space(s[j + 1]) THEN space_run_end(s, j + 1) ELSE j

\* the alternatives of (?:to|go to|take me to|head to|towards?|near), in the
\* order the regex engine tries them
Markers ==
  <<<<"t", "o">>,
  <<"g", "o", " ", "t", "o">>,
  <<"t", "a", "k", "e", " ", "m", "e", " ", "t", "o">>,
  <<"h", "e", "a", "d", " ", "t", "o">>,
  <<"t", "o", "w", "a", "r", "d", "s">>,
  <<"t", "o", "w", "a", "r", "d">>,
  <<"n", "e", "a", "r">>>>

\* group(1) when the destination pattern matches at position i with the
\* alternative m: \s+ is greedy, ([a-zA-Z\s]+?) is lazy and the rest of the
\* pattern is optional, so the group is the one character after the
\* whitespace; when that character is no letter, \s+ gives one back
group_at(s, i, m) ==
  LET j == i + Len(m) IN
  IF ~starts_at(s, i, m) THEN None
  ELSE IF j > Len(s) THEN None
  ELSE IF ~is_space(s[j]) THEN None
  ELSE LET e == space_run_end(s, j)
       IN IF e < Len(s) /\ is_alpha(s[e + 1]) THEN Str(s[e + 1])
          ELSE IF e > j THEN Str(s[e])
          ELSE None

RECURSIVE alternative_at(_, _, _)
alternative_at(s, i, k) ==
  IF k > Len(Markers) THEN None
  ELSE LET g == group_at(s, i, Markers[k])
       IN IF g # None THEN g ELSE alternative_at(s, i, k + 1)

\* re.search(destination pattern, s): group(1) of the leftmost match at or
\* after position i, or None
destination_search(s, i) ==
  IF \E k \in i..Len(s) : alternative_at(s, k, 1) # None
  THEN alternative_at(s,
                      CHOOSE k \in i..Len(s) :
                        /\ alternative_at(s, k, 1) # None
                        /\ \A j \in i..(k - 1) : alternative_at(s, j, 1) = None,
                      1)
  ELSE None

\* str.strip() of a one-character string
strip(c) == IF is_space(c) THEN "" ELSE c

\* the destination parse_ride_preferences settles on
extract_destination(user_input) ==
  LET destination == match_destination(user_input)
  IN IF truthy(destination) THEN destination.value
     ELSE LET destination_match == destination_search(lower(user_input), 1)
          IN IF destination_match # None THEN strip(destination_match.value)
             ELSE "current location"

\* a classification that looks for premium words first
detect_ride_type_premium_first(s) ==
  IF any_in(<<<<"p", "r", "e", "m", "i", "u", "m">>,
            <<"c", "o", "m", "f", "o", "r", "t", "a", "b", "l", "e">>,
            <<"x", "l">>,
            <<"s", "u", "v">>>>, s)
  THEN "premium"
  ELSE IF any_in(<<<<"r", "i", "c", "k">>,
                 <<"r", "i", "c", "k", "s", "h", "a", "w">>,
                 <<"a", "u", "t", "o", "-", "r", "i", "c", "k", "s", "h", "a", "w">>>>, s)
  THEN "rickshaw"
  ELSE "car"

\* the if/elif chain that detects the ride type
detect_ride_type(s) ==
  IF any_in(<<<<"r", "i", "c", "k">>,
            <<"r", "i", "c", "k", "s", "h", "a", "w">>,
            <<"a", "u", "t", "o", "-", "r", "i", "c", "k", "s", "h", "a", "w">>>>, s)
  THEN "rickshaw"
  ELSE IF any_in(<<<<"b", "i", "k", "e">>,
                 <<"m", "o", "t", "o", "r", "c", "y", "c", "l", "e">>,
                 <<"t", "w", "o", "-", "w", "h", "e", "e", "l", "e", "r">>>>, s)
  THEN "bike"
  ELSE IF any_in(<<<<"a", "u", "t", "o">>,
                 <<"a", "u", "t", "o", " ", "r", "i", "c", "k", "s", "h", "a", "w">>>>, s)
  THEN "auto"
  ELSE IF any_in(<<<<"p", "r", "e", "m", "i", "u", "m">>,
                 <<"c", "o", "m", "f", "o", "r", "t", "a", "b", "l", "e">>,
                 <<"x", "l">>,
                 <<"s", "u", "v">>>>, s)
  THEN "premium"
  ELSE "car"

\* the if/elif that detects the AC preference
detect_ac_preference(s) ==
  IF contains(<<"a", "c">>, s) \/ contains(<<"a", "i", "r">>, s) THEN True
  ELSE IF any_in(<<<<"n", "o", " ", "a", "c">>,
                 <<"w", "i", "t", "h", "o", "u", "t", " ", "a", "c">>,
                 <<"n", "o", "n", "-", "a", "c">>>>, s)
  THEN False
  ELSE None

\* luggage = any(word in ... for word in [...])
detect_luggage(s) ==
  any_in(<<<<"l", "u", "g", "g", "a", "g", "e">>,
         <<"b", "a", "g">>,
         <<"b", "a", "g", "g", "a", "g", "e">>,
         <<"s", "u", "i", "t", "c", "a", "s", "e">>>>, s)

\* the number a string of decimal digits stands for
RECURSIVE number(_)
number(digits) ==
  IF digits = <<>> THEN 0
  ELSE 10 * number(SubSeq(digits, 1, Len(digits) - 1))
       + digit_value(digits[Len(digits)])

\* the most digits int() converts: the interpreter's int_max_str_digits
int_max_str_digits == 4300

\* an int value
int_object(n) == [kind |-> "int", value |-> n]

\* int(text) for a string of decimal digits: the number, or ValueError
\* ("Exceeds the limit (4300 digits) for integer string conversion")
int(digits) ==
  IF Len(digits) > int_max_str_digits THEN Exception ELSE int_object(number(digits))

\* the last position of the run of digits that begins at i: \d+ is greedy
digit_run_end(s, i) ==
  CHOOSE e \in i..Len(s) :
    /\ e = Len(s) \/ ~is_decimal(s[e + 1])
    /\ \A k \in (i + 1)..e : is_decimal(s[k])

\* the alternatives of (?:of us|people|passengers|persons)
CountedNouns == <<<<"o", "f", " ", "u", "s">>,
                <<"p", "e", "o", "p", "l", "e">>,
                <<"p", "a", "s", "s", "e", "n", "g", "e", "r", "s">>,
                <<"p", "e", "r", "s", "o", "n", "s">>>>

\* group(1) when (\d+)\s+(?:of us|people|passengers|persons) matches at
\* position i, else None
number_at(s, i) ==
  IF ~is_decimal(s[i]) THEN None
  ELSE LET e == digit_run_end(s, i)
       IN IF e >= Len(s) THEN None
          ELSE IF ~is_space(s[e + 1]) THEN None
          ELSE LET w == space_run_end(s, e + 1)
               IN IF \E k \in 1..Len(CountedNouns) : starts_at(s, w + 1, CountedNouns[k])
                  THEN [kind |-> "str", value |-> SubSeq(s, i, e)]
                  ELSE None

\* re.search(number pattern, s): group(1) of the leftmost match at or after
\* position i, or None
num_search(s, i) ==
  IF \E k \in i..Len(s) : number_at(s, k) # None
  THEN number_at(s,
                 CHOOSE k \in i..Len(s) :
                   /\ number_at(s, k) # None
                   /\ \A j \in i..(k - 1) : number_at(s, j) = None)
  ELSE None

\* passengers = 1, replaced by the number of the numeric phrase when the text
\* has 'we' or 'us'; the ValueError of int() leaves the try block
detect_passengers(s) ==
  IF contains(<<"w", "e">>, s) \/ contains(<<"u", "s">>, s)
  THEN LET num_match == num_search(s, 1)
       IN IF num_match # None THEN int(num_match.value) ELSE int_object(1)
  ELSE int_object(1)

\* prefs = RidePreferences(destination=..., ride_type=..., passengers=...,
\* luggage=..., ac_preference=...)
prefs(destination, ride_type, passengers, luggage, ac_preference) ==
  [kind |-> "RidePreferences", destination |-> destination,
   ride_type |-> ride_type, passengers |-> passengers, luggage |-> luggage,
   ac_preference |-> ac_preference]

\* prefs.model_dump_json(): a str holding the JSON object of the fields
model_dump_json(p) ==
  [kind |-> "str",
   json |-> [kind |-> "dict", destination |-> p.destination,
             ride_type |-> p.ride_type, passengers |-> p.passengers,
             luggage |-> p.luggage, ac_preference |-> p.ac_preference]]

\* f"Error: {str(e)}": a str that is not JSON
error_text == [kind |-> "str", json |-> None]

\* json.loads: the dict of a JSON object, JSONDecodeError for other text
json_loads(text) == IF text.json.kind = "dict" THEN text.json ELSE Exception

\* the body of parse_ride_preferences' try block; user_input.lower() raises
\* AttributeError when user_input is no str, and int() raises ValueError on
\* a passenger count of more than int_max_str_digits digits
parse_ride_preferences_try(user_input) ==
  IF user_input.kind # "str" THEN Exception
  ELSE LET s == lower(user_input.chars)
           passengers == detect_passengers(s)
       IN IF passengers.kind = "Exception" THEN Exception
          ELSE model_dump_json(prefs(extract_destination(user_input.chars),
                                     detect_ride_type(s), passengers.value,
                                     detect_luggage(s),
                                     detect_ac_preference(s)))

\* parse_ride_preferences: except Exception -> return f"Error: {str(e)}"
parse_ride_preferences(user_input) ==
  LET r == parse_ride_preferences_try(user_input)
  IN IF r.kind = "Exception" THEN error_text ELSE r

\* CabComparisonOrchestrator.parse_user_input: the RidePreferences built from
\* the parser's JSON; an exception is logged and raised again
parse_user_input(user_input) ==
  LET prefs_json == parse_ride_preferences(user_input)
      prefs_dict == json_loads(prefs_json)
  IN IF prefs_dict.kind = "Exception" THEN Exception
     ELSE prefs(prefs_dict.destination, prefs_dict.ride_type,
                prefs_dict.passengers, prefs_dict.luggage,
                prefs_dict.ac_preference)

\* most phrases of one input text
MaxPhrases == 2

\* phrases the input texts are made of
Phrases ==
  <<<<"G", "o", " ", "t", "o">>,
  <<"a", "i", "r", "p", "o", "r", "t">>,
  <<"j", "i", "i", "t">>,
  <<"s", "e", "c", " ", "6", "2">>,
  <<"s", "e", "c", " ", "1", "2", "8">>,
  <<"w", "i", "s", "h", "t", "o", "w", "n">>,
  <<"w", "o", "r", "k", "p", "l", "a", "c", "e">>,
  <<"r", "i", "c", "k", "s", "h", "a", "w">>,
  <<"p", "r", "e", "m", "i", "u", "m">>,
  <<"b", "i", "k", "e">>,
  <<"a", "u", "t", "o">>,
  <<"n", "o", " ", "a", "c">>,
  <<"3", " ", "p", "e", "o", "p", "l", "e">>,
  <<"1", "2", " ", "o", "f", " ", "u", "s">>,
  <<"h", "o", "u", "s", "e">>,
  <<"b", "a", "g">>,
  <<"w", "e">>,
  <<"0", " ", "p", "e", "o", "p", "l", "e">>,
  <<"W", "O", "R", "U+212A">>,
  <<"t", "o", " ", "U+0130">>,
  <<"t", "o", "\r", "p", "u", "n", "e">>,
  <<"t", "o", " ", "\r">>,
  <<"U+0663", "U+00A0", "p", "e", "o", "p", "l", "e">>>>

\* the phrases numbered by ps, separated by single blanks
RECURSIVE join(_)
join(ps) ==
  IF ps = <<>> THEN <<>>
  ELSE IF Len(ps) = 1 THEN Phrases[ps[1]]
  ELSE Phrases[ps[1]] \o <<" ">> \o join(Tail(ps))

Texts ==
  {join(ps) : ps \in UNION {[1..n -> 1..Len(Phrases)] : n \in 0..MaxPhrases}}

\* what a caller may hand over as user_input: a text, or None
UserInputs == {[kind |-> "str", chars |-> t] : t \in Texts} \cup {None}

InitParse ==
  /\ Idle
  /\ last_comparison = None
  /\ parse_call \in {[kind |-> "input", user_input |-> u, ret |-> None] :
                       u \in UserInputs}

\* the tool parse_ride_preferences is called on the input
ParseRidePreferences ==
  /\ parse_call.kind = "input"
  /\ parse_call' = [parse_call EXCEPT
                      !.kind = "parse_ride_preferences",
                      !.ret = parse_ride_preferences(parse_call.user_input)]
  /\ UNCHANGED <<caller, apps, tasks, cp, comparison, last_comparison,
                 last_booking, prior_comparison, supplied, bk, book_calls,
                 booking, cli, agent_call, requests, clock>>

\* the orchestrator's parse_user_input is called on the input
ParseUserInput ==
  /\ parse_call.kind = "input"
  /\ parse_call' = [parse_call EXCEPT
                      !.kind = "parse_user_input",
                      !.ret = parse_user_input(parse_call.user_input)]
  /\ UNCHANGED <<caller, apps, tasks, cp, comparison, last_comparison,
                 last_booking, prior_comparison, supplied, bk, book_calls,
                 booking, cli, agent_call, requests, clock>>

NextParse ==
  \/ ParseRidePreferences
  \/ ParseUserInput

SpecParse == InitParse /\ [][NextParse]_vars

\* ------------------------------------------------------ passenger counts
\* what a text may have before its numeric phrase: nothing, "we", "us", or a
\* word that holds "us"
CountLeads ==
  {<<>>, <<"w", "e", " ">>, <<"u", "s", " ">>,
   <<"h", "o", "u", "s", "e", " ">>}

\* a run of more digits than int() converts
LongCount == [i \in 1..(int_max_str_digits + 1) |-> "1"]

\* the digit runs of the numeric phrases
Counts ==
  {<<"1">>, <<"3">>, <<"0">>, <<"U+0663">>, <<"1", "2">>, <<"1", "U+0663">>,
   <<"0", "7">>, LongCount}

\* the whitespace between the digits and the noun
CountGaps == {<<" ">>, <<"\r">>, <<"U+00A0", " ">>}

\* what follows: one of the counted nouns
CountTails == {CountedNouns[k] : k \in 1..Len(CountedNouns)}

\* texts with a numeric phrase
CountTexts ==
  {l \o c \o g \o t :
     l \in CountLeads, c \in Counts, g \in CountGaps, t \in CountTails}

InitCount ==
  /\ Idle
  /\ last_comparison = None
  /\ parse_call \in {[kind |-> "input",
                      user_input |-> [kind |-> "str", chars |-> t],
                      ret |-> None] : t \in CountTexts}

SpecCount == InitCount /\ [][NextParse]_vars

\* ------------------------------------------------------------------ claims
\* every requested name has a registered agent
AllRegistered == \A i \in 1..Len(apps) : apps[i] \in DOMAIN agents

\* C1: when all requested names are registered and compare_prices returned,
\* the selected provider is one whose own unit returned a quote, no quoted
\* provider is cheaper, and every quoted provider with the same price comes
\* later in the requested provider order.
C1_CheapestIsFirstArgmin ==
  (cp = "returned" /\ AllRegistered) =>
    \E i \in 1..Len(apps) :
      /\ truthy(tasks[i].result)
      /\ comparison.cheapest_app = apps[i]
      /\ \A j \in 1..Len(apps) :
           truthy(tasks[j].result) =>
             /\ tasks[i].result.estimated_price <= tasks[j].result.estimated_price
             /\ (tasks[j].result.estimated_price = tasks[i].result.estimated_price
                   => i <= j)

\* three providers in an order other than the registry's, the first and the
\* last tie on the lowest price, and the first is selected
C1_Witness ==
  /\ cp = "returned"
  /\ apps = <<"rapido", "ola", "uber">>
  /\ \A i \in 1..3 : truthy(tasks[i].result)
  /\ tasks[1].result.estimated_price = tasks[3].result.estimated_price
  /\ tasks[1].result.estimated_price < tasks[2].result.estimated_price
  /\ comparison.cheapest_app = "rapido"

\* C2: when every scheduled unit ended without a quote, compare_prices raised
\* its ValueError (no quotes available): it returned no ComparisonResult and
\* stored none.
C2_AllFailedRaises ==
  (cp \in {"returned", "raised"}
     /\ \A i \in 1..Len(tasks) : ~truthy(tasks[i].result)) =>
    /\ cp = "raised"
    /\ comparison = None
    /\ last_comparison = prior_comparison

\* three units all failed, on an orchestrator that held an earlier comparison
C2_Witness ==
  /\ cp = "raised"
  /\ Len(tasks) = 3
  /\ prior_comparison # None
  /\ last_comparison = prior_comparison

\* C3: when all requested names are registered and at least one unit returned
\* a quote, the comparison succeeds, and a provider is a key of the result map
\* exactly when its own unit returned a quote, holding that very quote.
C3_FailureIsolation ==
  (cp \in {"returned", "raised"} /\ AllRegistered
     /\ \E i \in 1..Len(tasks) : truthy(tasks[i].result)) =>
    /\ cp = "returned"
    /\ \A i \in 1..Len(apps) :
         IF truthy(tasks[i].result)
         THEN /\ dict_has(comparison.prices, apps[i])
              /\ dict_get(comparison.prices, apps[i]) = tasks[i].result
         ELSE ~dict_has(comparison.prices, apps[i])
    /\ \A n \in 1..Len(comparison.prices) :
         \E i \in 1..Len(apps) : apps[i] = comparison.prices[n].key

\* of three providers the first failed and the other two are in the result
C3_Witness ==
  /\ cp = "returned"
  /\ Len(apps) = 3
  /\ AllRegistered
  /\ ~truthy(tasks[1].result)
  /\ dict_keys(comparison.prices) = <<apps[2], apps[3]>>

\* C4: compare_prices has aggregated (returned a result or raised) only when
\* every scheduled unit has settled.
C4_Barrier ==
  cp \in {"returned", "raised"} =>
    \A i \in 1..Len(tasks) : tasks[i].pc = "settled"

\* a comparison over three units that ended differently was aggregated
C4_Witness ==
  /\ cp = "returned"
  /\ Len(tasks) = 3
  /\ \E i, j \in 1..3 : truthy(tasks[i].result) /\ ~truthy(tasks[j].result)
  /\ \A i \in 1..3 : tasks[i].pc = "settled"

\* the comparison book_cheapest books from
Winner == IF supplied.kind # "None" THEN supplied ELSE comparison

\* self.last_booking when the operation was called
prior_booking == IF prior_comparison = None THEN None ELSE PriorBooking

\* C5: book_ride is invoked at most once, by book_cheapest only, on the
\* cheapest_app of the comparison it books from and with the quote stored
\* under that provider; when the booking fails, book_cheapest returns None
\* and no further book_ride was invoked.
C5_BookOnlyWinner ==
  /\ Len(book_calls) <= 1
  /\ \A n \in 1..Len(book_calls) :
       /\ caller = "book"
       /\ Winner.kind = "ComparisonResult"
       /\ book_calls[n].agent = Winner.cheapest_app
       /\ book_calls[n].price_info
            = dict_get(Winner.prices, Winner.cheapest_app)
  /\ (bk = "returned" /\ Len(book_calls) = 1 /\ ~truthy(book_calls[1].ret)) =>
       /\ booking = None
       /\ last_booking = prior_booking

\* the booking on the winner of a two-provider comparison failed; the winner
\* is not the first provider of the comparison
C5_Witness ==
  /\ bk = "returned"
  /\ supplied.kind = "ComparisonResult"
  /\ Len(supplied.prices) >= 2
  /\ supplied.cheapest_app # supplied.prices[1].key
  /\ Len(book_calls) = 1
  /\ ~truthy(book_calls[1].ret)
  /\ booking = None

\* C6 as stated: in every ComparisonResult each quote is stored under a key
\* equal to the quote's own app_name.
C6_KeyEqualsQuoteName ==
  cp = "returned" =>
    \A n \in 1..Len(comparison.prices) :
      comparison.prices[n].key = comparison.prices[n].val.app_name

\* C6 as amended: each quote of a ComparisonResult is stored under the
\* requested name at whose position in apps its result slot was read; when
\* all requested names are registered that is the registry key of the agent
\* whose unit returned the quote. The quote's app_name is what the run
\* reported and is not tied to the key.
C6_KeyIsRequestedName ==
  cp = "returned" =>
    \A n \in 1..Len(comparison.prices) :
      \E i \in 1..Len(apps) :
        /\ i <= Len(tasks)
        /\ comparison.prices[n].key = apps[i]
        /\ comparison.prices[n].val = tasks[i].result
        /\ AllRegistered => tasks[i].app = comparison.prices[n].key

\* a result that holds one quote whose app_name differs from its key and one
\* whose app_name equals it
C6_Witness ==
  /\ cp = "returned"
  /\ AllRegistered
  /\ \E n, m \in 1..Len(comparison.prices) :
       /\ comparison.prices[n].key # comparison.prices[n].val.app_name
       /\ comparison.prices[n].val.app_name = agents[comparison.prices[n].key]
       /\ comparison.prices[m].key = comparison.prices[m].val.app_name

\* a ComparisonResult is well formed: non-empty prices, cheapest_app a key,
\* cheapest_price the price stored under it
WellFormed(c) ==
  /\ c.prices # <<>>
  /\ dict_has(c.prices, c.cheapest_app)
  /\ c.cheapest_price = dict_get(c.prices, c.cheapest_app).estimated_price

\* C7: every ComparisonResult compare_prices returned or stored has a
\* non-empty prices map, a cheapest_app that is a key of it, and a
\* cheapest_price equal to the price of the quote under that key.
C7_ResultWellFormed ==
  /\ cp = "returned" => WellFormed(comparison)
  /\ last_comparison.kind = "ComparisonResult" => WellFormed(last_comparison)

\* a result with two quotes whose cheapest is not the first entry and is
\* strictly cheaper than it
C7_Witness ==
  /\ cp = "returned"
  /\ Len(comparison.prices) >= 2
  /\ comparison.cheapest_app # comparison.prices[1].key
  /\ comparison.cheapest_price < comparison.prices[1].val.estimated_price
  /\ last_comparison = comparison

\* C8: when the CLI request ended on the deadline, compare_prices was
\* cancelled, no unit is left running, no ComparisonResult was returned or
\* shown and the stored last comparison is the one from before the request;
\* a comparison that ended without quotes ends the request as an error, not
\* as a timeout, and one that returned is shown unless its display raised.
C8_TimeoutDiscards ==
  /\ cli = "timeout" =>
       /\ cp = "cancelled"
       /\ comparison = None
       /\ last_comparison = prior_comparison
       /\ \A i \in 1..Len(tasks) : tasks[i].pc \in {"settled", "cancelled"}
  /\ (caller = "cli" /\ cp = "raised") => cli = "error"
  /\ (caller = "cli" /\ cp = "returned") =>
       cli = IF display_comparison(comparison) = None THEN "shown" ELSE "error"

\* the deadline hit with one unit's quote already in and another unit still
\* running, on an orchestrator that held an earlier comparison
C8_Witness ==
  /\ cli = "timeout"
  /\ \E i, j \in 1..Len(tasks) :
       /\ tasks[i].pc = "settled" /\ truthy(tasks[i].result)
       /\ tasks[j].pc = "cancelled"
  /\ prior_comparison # None
  /\ last_comparison = prior_comparison

\* the run or the goal of the recorded agent call failed
CallFailed ==
  \/ agent_call.run # "success_structured"
  \/ agent_call.preferences.kind = "None"
  \/ agent_call.structured_output.kind = "None"
  \/ agent_call.kind = "book_ride" /\ agent_call.price_info.kind = "None"

\* C9: no agent operation hands an exception to its caller: open_app and
\* close_app return True or False, get_price and book_ride return the
\* structured result or None; a failed run, a run without a structured
\* result and an error while building the goal or running all give False
\* (open_app) or None (get_price, book_ride).
C9_NoExceptionPastAgent ==
  /\ agent_call.kind # "None" => agent_call.ret.kind # "Exception"
  /\ agent_call.kind = "open_app" =>
       /\ agent_call.ret \in {True, False}
       /\ agent_call.run \in {"failure", "raises"} => agent_call.ret = False
  /\ agent_call.kind = "close_app" => agent_call.ret \in {True, False}
  /\ agent_call.kind \in {"get_price", "book_ride"} =>
       IF CallFailed THEN agent_call.ret = None
       ELSE agent_call.ret = agent_call.structured_output

\* a price run that raised ended in None
C9_Witness ==
  /\ agent_call.kind = "get_price"
  /\ agent_call.run = "raises"
  /\ agent_call.preferences.kind # "None"
  /\ agent_call.ret = None

\* book_cheapest was called without a comparison and has returned
BookReturned == caller = "book" /\ supplied = None /\ bk = "returned"

\* the comparison inside book_cheapest found no quotes
NoQuotesCase == BookReturned /\ cp = "raised"

\* the booking call on the selected provider failed
BookingFailedCase ==
  BookReturned /\ Len(book_calls) = 1 /\ ~truthy(book_calls[1].ret)

\* what the caller of book_cheapest gets when the booking call failed
BookingFailedResult == None

\* C10 as stated: the caller of book_cheapest (without a comparison) can tell
\* 'no quotes' from 'booking failed': what it gets in the first case differs
\* from what it gets in the second.
C10_FailuresToldApart ==
  NoQuotesCase => booking # BookingFailedResult

\* C10 as amended: book_cheapest (without a comparison) returns None both
\* when the comparison found no quotes and when the booking call on the
\* selected provider failed; in the first case book_ride was never invoked.
C10_BothFailuresReturnNone ==
  /\ NoQuotesCase => booking = None /\ book_calls = <<>>
  /\ BookingFailedCase => booking = BookingFailedResult /\ cp = "returned"

\* book_cheapest returned None because all three units ended without a quote
C10_Witness ==
  /\ NoQuotesCase
  /\ Len(tasks) = 3
  /\ booking = None

\* how many times a unit invoked the agent operation op
count(calls, op) == Cardinality({k \in 1..Len(calls) : calls[k] = op})

\* C12: within one compare_prices over distinct provider names each provider
\* has one unit, the unit invokes open_app at most once and get_price at most
\* once whether or not they fail, and book_ride is invoked at most once
\* whether or not it fails.
C12_NoRetries ==
  /\ \A i, j \in 1..Len(tasks) : tasks[i].app = tasks[j].app => i = j
  /\ \A i \in 1..Len(tasks) :
       /\ count(tasks[i].calls, "open_app") <= 1
       /\ count(tasks[i].calls, "get_price") <= 1
  /\ Len(book_calls) <= 1

\* inside book_cheapest one open failed, one price run failed after a
\* successful open, and the single booking call failed
C12_Witness ==
  /\ caller = "book"
  /\ bk = "returned"
  /\ Len(tasks) = 3
  /\ tasks[1].pc = "settled" /\ tasks[1].calls = <<"open_app">>
  /\ tasks[2].pc = "settled" /\ ~truthy(tasks[2].result)
  /\ tasks[2].calls = <<"open_app", "get_price", "close_app">>
  /\ Len(book_calls) = 1
  /\ ~truthy(book_calls[1].ret)

\* the session of one unit: Open from the successful open_app (get_price is
\* invoked right after it) until close_app
session(unit) ==
  IF count(unit.calls, "get_price") > 0 /\ count(unit.calls, "close_app") = 0
  THEN "Open" ELSE "Closed"

\* the session of a provider: Open when a unit holds it open
provider_session(app) ==
  IF \E i \in 1..Len(tasks) : tasks[i].app = app /\ session(tasks[i]) = "Open"
  THEN "Open" ELSE "Closed"

\* C13 as stated: while book_ride runs on a provider, that provider's session
\* is Open: a successful open_app came before and no close_app since.
C13_BookOnlyWhenOpen ==
  bk = "book_ride" =>
    provider_session(book_calls[Len(book_calls)].agent) = "Open"

\* C20 as stated: every quote of a returned ComparisonResult, and the
\* cheapest price, is at least zero.
C20_PricesNonNegative ==
  (cp = "returned" /\ truthy(comparison)) =>
    /\ \A n \in 1..Len(comparison.prices) :
         comparison.prices[n].val.estimated_price >= 0
    /\ comparison.cheapest_price >= 0

\* C11 as stated: no agent is operated on by two requests that are in flight
\* at the same time on one orchestrator.
C11_AgentsNotShared ==
  \A r1, r2 \in 1..Len(requests) :
    r1 # r2 => operated_on(requests[r1]) \cap operated_on(requests[r2]) = {}

\* an extraction call on a text has returned
ExtractedText ==
  /\ parse_call.kind \in {"parse_ride_preferences", "parse_user_input"}
  /\ parse_call.user_input.kind = "str"

\* the lower-cased input of the extraction call
InputLower == lower(parse_call.user_input.chars)

\* the preference fields the extraction call handed back
Extracted ==
  IF parse_call.kind = "parse_user_input" THEN parse_call.ret
  ELSE parse_call.ret.json

\* the extraction call failed internally
ExtractionFailed ==
  /\ parse_call.kind \in {"parse_ride_preferences", "parse_user_input"}
  /\ parse_ride_preferences_try(parse_call.user_input).kind = "Exception"

\* C14 as stated: an extraction call never ends in an exception or in a value
\* that is no preference record, and when it failed internally the record has
\* ride type "car" and destination "current location".
C14_ExtractNeverRaises ==
  /\ parse_call.kind = "parse_user_input" =>
       parse_call.ret.kind = "RidePreferences"
  /\ parse_call.kind = "parse_ride_preferences" =>
       parse_call.ret.json.kind = "dict"
  /\ ExtractionFailed =>
       /\ Extracted.kind \in {"RidePreferences", "dict"}
       /\ Extracted.ride_type = "car"
       /\ Extracted.destination = "current location"

\* positions in COMMON_DESTINATIONS of the destinations with a keyword in s
Candidates(s) ==
  {d \in 1..Len(COMMON_DESTINATIONS) : any_in(COMMON_DESTINATIONS[d].keywords, s)}

\* a keyword that is all digits and longer than 3, or contains sec or sector
SpecificKeyword(kw) ==
  \/ isdigit(kw) /\ Len(kw) > 3
  \/ contains(<<"s", "e", "c">>, kw)
  \/ contains(<<"s", "e", "c", "t", "o", "r">>, kw)

\* positions of the destinations with a specific keyword in s
SpecificCandidates(s) ==
  {d \in 1..Len(COMMON_DESTINATIONS) :
     \E k \in 1..Len(COMMON_DESTINATIONS[d].keywords) :
       /\ SpecificKeyword(COMMON_DESTINATIONS[d].keywords[k])
       /\ contains(COMMON_DESTINATIONS[d].keywords[k], s)}

\* how many keywords of destination d are in s
KeywordHits(d, s) ==
  Cardinality({k \in 1..Len(COMMON_DESTINATIONS[d].keywords) :
                 contains(COMMON_DESTINATIONS[d].keywords[k], s)})

\* the least element of a non-empty set of positions
First(S) == CHOOSE d \in S : \A e \in S : d <= e

\* C15: when the text has keywords of two or more destinations and at least
\* one of them has a specific keyword in the text, the extracted destination
\* is the first destination, in table order, with a specific keyword in the
\* text, whatever the numbers of matched keywords are.
C15_SpecificKeywordDisambiguates ==
  (/\ ExtractedText
   /\ Cardinality(Candidates(InputLower)) >= 2
   /\ SpecificCandidates(InputLower) # {}) =>
    Extracted.destination =
      COMMON_DESTINATIONS[First(SpecificCandidates(InputLower))].name

\* exactly one candidate has a specific keyword in the text, another
\* candidate has more keywords in the text, and the first one is extracted
C15_Witness ==
  /\ ExtractedText
  /\ Cardinality(SpecificCandidates(InputLower)) = 1
  /\ \E d \in SpecificCandidates(InputLower), e \in Candidates(InputLower) :
       /\ KeywordHits(e, InputLower) > KeywordHits(d, InputLower)
       /\ Extracted.destination = COMMON_DESTINATIONS[d].name

\* the keyword groups of the ride types, in order of precedence
RideTypeGroups ==
  <<[ride_type |-> "rickshaw",
     tokens |-> <<<<"r", "i", "c", "k">>,
                 <<"r", "i", "c", "k", "s", "h", "a", "w">>,
                 <<"a", "u", "t", "o", "-", "r", "i", "c", "k", "s", "h", "a", "w">>>>],
    [ride_type |-> "bike",
     tokens |-> <<<<"b", "i", "k", "e">>,
                 <<"m", "o", "t", "o", "r", "c", "y", "c", "l", "e">>,
                 <<"t", "w", "o", "-", "w", "h", "e", "e", "l", "e", "r">>>>],
    [ride_type |-> "auto",
     tokens |-> <<<<"a", "u", "t", "o">>,
                 <<"a", "u", "t", "o", " ", "r", "i", "c", "k", "s", "h", "a", "w">>>>],
    [ride_type |-> "premium",
     tokens |-> <<<<"p", "r", "e", "m", "i", "u", "m">>,
                 <<"c", "o", "m", "f", "o", "r", "t", "a", "b", "l", "e">>,
                 <<"x", "l">>,
                 <<"s", "u", "v">>>>]>>

\* positions of the groups with a token in s
GroupsPresent(s) ==
  {g \in 1..Len(RideTypeGroups) : any_in(RideTypeGroups[g].tokens, s)}

\* C16: the extracted ride type is that of the first group, in the order
\* rickshaw, bike, auto, premium, with a token in the lower-cased text, and
\* "car" when no group has one.
C16_RideTypePrecedence ==
  ExtractedText =>
    Extracted.ride_type =
      IF GroupsPresent(InputLower) = {} THEN "car"
      ELSE RideTypeGroups[First(GroupsPresent(InputLower))].ride_type

\* the text has a rickshaw token and a premium token and is classified as
\* rickshaw
C16_Witness ==
  /\ ExtractedText
  /\ {1, 4} \subseteq GroupsPresent(InputLower)
  /\ Extracted.ride_type = "rickshaw"

\* the text has one of "no ac", "without ac", "non-ac"
HasNegation(s) ==
  any_in(<<<<"n", "o", " ", "a", "c">>,
         <<"w", "i", "t", "h", "o", "u", "t", " ", "a", "c">>,
         <<"n", "o", "n", "-", "a", "c">>>>, s)

\* the text has "ac" or "air"
HasAcToken(s) == contains(<<"a", "c">>, s) \/ contains(<<"a", "i", "r">>, s)

\* C17 as stated: the AC preference is False (not needed) when the text has a
\* negation token, True (preferred) when it has an AC/air token and no
\* negation token, and None (unspecified) otherwise.
C17_NegationRule ==
  ExtractedText =>
    Extracted.ac_preference =
      IF HasNegation(InputLower) THEN False
      ELSE IF HasAcToken(InputLower) THEN True
      ELSE None

\* the text has "we" or "us"
HasWeUs(s) == contains(<<"w", "e">>, s) \/ contains(<<"u", "s">>, s)

\* the numeric phrases of s: <<i, e>> when s[i..e] is a whole run of digits
\* followed by whitespace and one of "of us", "people", "passengers",
\* "persons"
NumericPhrases(s) ==
  {ie \in (1..Len(s)) \X (1..Len(s)) :
     /\ ie[1] <= ie[2]
     /\ \A k \in ie[1]..ie[2] : is_decimal(s[k])
     /\ ie[1] = 1 \/ ~is_decimal(s[ie[1] - 1])
     /\ \E w \in (ie[2] + 1)..Len(s) :
          /\ \A k \in (ie[2] + 1)..w : is_space(s[k])
          /\ \E n \in 1..Len(CountedNouns) : starts_at(s, w + 1, CountedNouns[n])}

\* the digits of the leftmost numeric phrase of s
FirstNumber(s) ==
  LET ie == CHOOSE x \in NumericPhrases(s) :
              \A y \in NumericPhrases(s) : x[1] <= y[1]
  IN SubSeq(s, ie[1], ie[2])

\* C18 as stated: every extraction call on a text gives a passenger count,
\* which is 1, except when the text has "we" or "us" and a numeric phrase;
\* then it is exactly the number N of the (leftmost) numeric phrase. A numeric
\* phrase in a text without "we"/"us" leaves it at 1.
C18_PassengerCount ==
  ExtractedText =>
    /\ Extracted.kind \in {"RidePreferences", "dict"}
    /\ Extracted.passengers =
         IF HasWeUs(InputLower) /\ NumericPhrases(InputLower) # {}
         THEN number(FirstNumber(InputLower))
         ELSE 1

\* C21 as stated: for any requested list, units exist for registered names
\* only, and once compare_prices has ended every unit that returned a quote
\* has its own quote in the result map under its own name, in the order of
\* the requested list.
C21_OwnQuoteUnderOwnName ==
  cp \in {"returned", "raised"} =>
    /\ \A i \in 1..Len(tasks) : tasks[i].app \in DOMAIN agents
    /\ \A i \in 1..Len(tasks) :
         truthy(tasks[i].result) =>
           /\ cp = "returned"
           /\ dict_has(comparison.prices, tasks[i].app)
           /\ dict_get(comparison.prices, tasks[i].app) = tasks[i].result
    /\ cp = "returned" =>
         \A m, n \in 1..Len(comparison.prices) :
           m < n =>
             \E i, j \in 1..Len(apps) :
               /\ i < j
               /\ apps[i] = comparison.prices[m].key
               /\ apps[j] = comparison.prices[n].key

\* C22: a unit invokes open_app, then get_price, then close_app, in that
\* order; get_price only after open_app returned True; close_app after
\* get_price whether it returned a quote or None; when open_app returned
\* False the unit invokes nothing more and returns None, so that with all
\* names registered the result has no entry for its provider.
C22_OpenFetchClose ==
  \A i \in 1..Len(tasks) :
    LET u == tasks[i] IN
    /\ u.calls \in {<<>>, <<"open_app">>, <<"open_app", "get_price">>,
                    <<"open_app", "get_price", "close_app">>}
    /\ u.calls = <<>> => u.pc \in {"created", "cancelled"}
    /\ count(u.calls, "get_price") > 0 => u.opened = True
    /\ u.opened = False =>
         /\ u.calls = <<"open_app">>
         /\ u.pc = "settled" /\ u.result = None
    /\ (u.pc = "settled" /\ u.opened = True) =>
         u.calls = <<"open_app", "get_price", "close_app">>
    /\ (cp = "returned" /\ AllRegistered /\ u.opened = False) =>
         ~dict_has(comparison.prices, u.app)

\* compare_prices returned after one unit's open_app returned False, one
\* unit's get_price returned None and one unit's get_price returned a quote
C22_Witness ==
  /\ cp = "returned"
  /\ AllRegistered
  /\ Len(tasks) = 3
  /\ tasks[1].opened = False /\ tasks[1].calls = <<"open_app">>
  /\ tasks[2].opened = True /\ tasks[2].result = None
  /\ Len(tasks[2].calls) = 3
  /\ truthy(tasks[3].result) /\ Len(tasks[3].calls) = 3
  /\ Len(comparison.prices) = 1

\* the candidates of s with the most keywords in s
TopCandidates(s) ==
  {d \in Candidates(s) :
     \A e \in Candidates(s) : KeywordHits(e, s) <= KeywordHits(d, s)}

\* C23: when exactly one destination has a keyword in the lower-cased text it
\* is the extracted destination; when several have one and none of them has
\* a specific keyword in the text, the extracted destination is the one with
\* the most keywords in the text, the first in table order among equals.
C23_SingleOrMostKeywords ==
  ExtractedText =>
    /\ Cardinality(Candidates(InputLower)) = 1 =>
         Extracted.destination =
           COMMON_DESTINATIONS[First(Candidates(InputLower))].name
    /\ (Cardinality(Candidates(InputLower)) >= 2
        /\ SpecificCandidates(InputLower) = {}) =>
         Extracted.destination =
           COMMON_DESTINATIONS[First(TopCandidates(InputLower))].name

\* two destinations have keywords in the text, none a specific one, and the
\* extracted destination is the later one in the table because it has more
C23_Witness ==
  /\ ExtractedText
  /\ Cardinality(Candidates(InputLower)) >= 2
  /\ SpecificCandidates(InputLower) = {}
  /\ First(TopCandidates(InputLower)) # First(Candidates(InputLower))
  /\ Extracted.destination =
       COMMON_DESTINATIONS[First(TopCandidates(InputLower))].name

\* the positions at which a directional marker is followed by whitespace and
\* a letter
MarkerPositions(s) ==
  {i \in 1..Len(s) :
     \E k \in 1..Len(Markers) :
       /\ starts_at(s, i, Markers[k])
       /\ i + Len(Markers[k]) <= Len(s)
       /\ is_space(s[i + Len(Markers[k])])
       /\ space_run_end(s, i + Len(Markers[k])) < Len(s)
       /\ is_alpha(s[space_run_end(s, i + Len(Markers[k])) + 1])}

\* where the phrase after the leftmost marker begins
PhraseBegin(s) ==
  LET i == First(MarkerPositions(s))
      k == CHOOSE n \in 1..Len(Markers) :
             /\ starts_at(s, i, Markers[n])
             /\ i + Len(Markers[n]) <= Len(s)
             /\ is_space(s[i + Len(Markers[n])])
             /\ \A o \in 1..(n - 1) :
                  ~(/\ starts_at(s, i, Markers[o])
                    /\ i + Len(Markers[o]) <= Len(s)
                    /\ is_space(s[i + Len(Markers[o])]))
  IN space_run_end(s, i + Len(Markers[k])) + 1

\* the trailing qualifiers
Qualifiers ==
  <<<<"i", "n">>, <<"b", "y">>, <<"u", "s", "i", "n", "g">>,
    <<"w", "i", "t", "h">>, <<"a", "s">>, <<"p", "l", "e", "a", "s", "e">>,
    <<"n", "o", "w">>>>

\* positions after b where the phrase must stop: whitespace followed by a
\* qualifier, a character that is neither a letter nor whitespace, or the end
PhraseStops(s, b) ==
  {p \in (b + 1)..Len(s) :
     \/ is_space(s[p]) /\ \E q \in 1..Len(Qualifiers) :
                            starts_at(s, space_run_end(s, p) + 1, Qualifiers[q])
     \/ ~is_space(s[p]) /\ ~is_alpha(s[p])}
  \cup {Len(s) + 1}

\* the phrase after the leftmost marker, without surrounding whitespace
MarkerPhrase(s) ==
  LET b == PhraseBegin(s)
      stop == First(PhraseStops(s, b))
      e == CHOOSE p \in b..(stop - 1) :
             /\ is_alpha(s[p])
             /\ \A r \in (p + 1)..(stop - 1) : ~is_alpha(s[r])
  IN SubSeq(s, b, e)

\* the str made of the characters of a text
RECURSIVE to_str(_)
to_str(chars) == IF chars = <<>> THEN "" ELSE chars[1] \o to_str(Tail(chars))

\* C24 as stated: when no destination of the table has a keyword in the
\* text, the extracted destination is the whole phrase after the leftmost
\* directional marker, up to the first trailing qualifier or the end of the
\* text, and "current location" when no marker phrase is found.
C24_WholePhraseAfterMarker ==
  (ExtractedText /\ Candidates(InputLower) = {}) =>
    IF MarkerPositions(InputLower) # {}
    THEN Extracted.destination = to_str(MarkerPhrase(InputLower))
    ELSE Extracted.destination = "current location"

\* C25 as stated: every extracted record has a non-empty destination, a
\* passenger count of at least 1 and a ride type among car, rickshaw, bike,
\* auto, premium.
C25_RecordWellFormed ==
  ExtractedText =>
    /\ Extracted.destination # ""
    /\ Extracted.passengers >= 1
    /\ Extracted.ride_type \in {"car", "rickshaw", "bike", "auto", "premium"}

\* the ranking of a summary lists every quoted provider once, with its fare,
\* in ascending order of fare, and its first entry is the cheapest provider
RankingOf(c) ==
  LET ranking == c.comparison_summary.ranking IN
  /\ Len(ranking) = Len(c.prices)
  /\ \A n \in 1..Len(c.prices) :
       \E r \in 1..Len(ranking) :
         /\ ranking[r].app_name = upper(c.prices[n].key)
         /\ ranking[r].fare = c.prices[n].val.estimated_price
  /\ \A r \in 1..Len(ranking) : ranking[r].rank = r
  /\ \A r, s \in 1..Len(ranking) : r < s => ranking[r].fare <= ranking[s].fare
  /\ ranking[1].app_name = upper(c.cheapest_app)
  /\ ranking[1].emoji = "first"

\* C26 as stated: the summary of a returned result is an ascending ranking of
\* all quoted providers whose first entry is the selected cheapest provider,
\* and with two or more quotes it reports the savings between first and
\* second place.
C26_RankingWithSavings ==
  cp = "returned" =>
    /\ RankingOf(comparison)
    /\ Len(comparison.prices) >= 2 =>
         "savings" \in DOMAIN comparison.comparison_summary

\* C26 as amended: the summary of a returned result is an ascending ranking
\* of all quoted providers whose first entry is the selected cheapest provider
\* (also when prices tie), followed by the cheapest option and its fare; it
\* holds nothing else, in particular no savings between first and second
\* place.
C26_RankingWithoutSavings ==
  cp = "returned" =>
    /\ RankingOf(comparison)
    /\ comparison.comparison_summary.cheapest_option =
         [app_name |-> upper(comparison.cheapest_app),
          fare |-> comparison.cheapest_price]
    /\ DOMAIN comparison.comparison_summary = {"ranking", "cheapest_option"}

\* three quotes, the two cheapest at the same price: the ranking starts with
\* the selected provider, which is the earlier of the two in the request
C26_Witness ==
  /\ cp = "returned"
  /\ Len(comparison.prices) = 3
  /\ comparison.prices[1].val.estimated_price
       > comparison.prices[2].val.estimated_price
  /\ comparison.prices[2].val.estimated_price
       = comparison.prices[3].val.estimated_price
  /\ comparison.cheapest_app = comparison.prices[2].key
  /\ comparison.comparison_summary.ranking[1].app_name
       = upper(comparison.prices[2].key)
  /\ comparison.comparison_summary.ranking[3].app_name
       = upper(comparison.prices[1].key)

\* C27: self.last_comparison changes only when a compare_prices succeeds, and
\* then holds the result that call returned: until compare_prices has returned,
\* and after it raised ValueError or was cancelled by the deadline, the stored
\* comparison is the one the operation found; a book_cheapest that was given a
\* comparison makes no compare_prices call, so the stored comparison stays
\* the one the caller handed over, while book_ride runs and after it.
C27_LastComparisonFrame ==
  /\ cp = "returned" => last_comparison = comparison
  /\ cp # "returned" => last_comparison = prior_comparison
  /\ (caller = "book" /\ truthy(supplied)) =>
       /\ cp \in {"idle", "returned"}
       /\ last_comparison = supplied

\* a comparison was stored, and the compare_prices called after it raised
C27_Witness ==
  /\ cp = "raised"
  /\ prior_comparison = PriorComparison
  /\ last_comparison = PriorComparison

\* C28: self.last_booking is written only when agent.book_ride returned a
\* confirmation, and then holds that confirmation: while book_cheapest runs,
\* and after it returned None (its compare_prices raised, the booking run
\* failed or raised, the lookup raised), the stored booking is the one of the
\* most recent successful booking before it; it is None only if neither this
\* book_cheapest nor an earlier one succeeded.
C28_LastBookingFrame ==
  /\ (bk = "returned" /\ truthy(booking)) => last_booking = booking
  /\ ~(bk = "returned" /\ truthy(booking)) => last_booking = prior_booking
  /\ last_booking = None =>
       /\ prior_booking = None
       /\ ~(bk = "returned" /\ truthy(booking))

\* an earlier booking succeeded, and the booking run of the book_cheapest
\* called after it failed: the stored booking is still the earlier one
C28_Witness ==
  /\ bk = "returned"
  /\ Len(book_calls) = 1
  /\ book_calls[1].ret = None
  /\ booking = None
  /\ last_booking = PriorBooking

\* C29: COMPARISON_TIMEOUT is at least open_app_timeout + get_price_timeout,
\* so when the open_app run and the get_price run of every unit end within
\* their own timeouts, wait_for never cancels a unit before its quote is in.
C29_NoUnitAbandoned ==
  \A i \in 1..Len(tasks) : tasks[i].pc # "cancelled"

\* C30: the available flag of a quote plays no part in compare_prices and
\* book_cheapest: a quote with available = False that a unit returned is
\* stored in prices under the name at its position, cheapest_price is no more
\* than any stored fare, available or not, and book_ride receives the quote
\* stored under cheapest_app, available or not.
C30_AvailabilityIgnored ==
  /\ cp = "returned" =>
       /\ \A i \in 1..Len(apps) :
            (/\ apps[i] \in DOMAIN agents
             /\ i <= Len(tasks)
             /\ truthy(tasks[i].result)
             /\ ~tasks[i].result.available) =>
              /\ dict_has(comparison.prices, apps[i])
              /\ dict_get(comparison.prices, apps[i]) = tasks[i].result
       /\ \A k \in 1..Len(comparison.prices) :
            comparison.cheapest_price <= comparison.prices[k].val.estimated_price
  /\ \A n \in 1..Len(book_calls) :
       Winner.kind = "ComparisonResult" =>
         book_calls[n].price_info
           = dict_get(Winner.prices, Winner.cheapest_app)

\* an unavailable quote undercut an available one, was selected as the
\* cheapest and handed to book_ride
C30_Witness ==
  /\ Len(book_calls) = 1
  /\ ~book_calls[1].price_info.available
  /\ Winner.kind = "ComparisonResult"
  /\ Len(Winner.prices) >= 2
  /\ \E k \in 1..Len(Winner.prices) :
       /\ Winner.prices[k].val.available
       /\ Winner.prices[k].val.estimated_price > Winner.cheapest_price
  /\ Winner.cheapest_price = book_calls[1].price_info.estimated_price

====
